---- MODULE Spec2Model ----
(***************************************************************************)
(* Diagram annotation pipeline of patentflow-ai2.                          *)
(*                                                                         *)
(*   AnnotationService       backend/app/services/annotation_service.py    *)
(*   ComponentDetectorService                                              *)
(*                    backend/app/services/component_detector_service.py   *)
(*   VectorizationService backend/app/services/vectorization_service.py    *)
(*   DiagramPipelineService                                                *)
(*                    backend/app/services/diagram_pipeline_service.py     *)
(*                                                                         *)
(* Spec       : calls of AnnotationService.place_labels_on_svg on the      *)
(*              module-level instance `annotator`.                         *)
(* SpecDetect : calls of ComponentDetectorService.detect_components on the *)
(*              module-level instance `component_detector`.                *)
(* SpecClassify : one evaluation of _classify_component.                   *)
(* SpecRequests : two requests in detect_components at the same time.      *)
(* SpecOptimize : VectorizationService.bitmap_to_svg, then optimize_svg    *)
(*              applied again and again to its own result.                 *)
(* SpecPipeline : calls of DiagramPipelineService.process_sketch,          *)
(*              vectorize_only and annotate_existing_svg, which run the    *)
(*              detector and the annotator.                                *)
(* SpecRuns   : two calls of process_sketch as coroutines of one event     *)
(*              loop.                                                      *)
(*                                                                         *)
(* Arithmetic.  math.sqrt of an integer is correctly rounded and monotone, *)
(* so for integer pixel coordinates  sqrt(d2) < 25  iff  d2 < 625  and     *)
(* sqrt(d2) > 30  iff  d2 > 900: distances are kept squared.  The          *)
(* importance score  area - (y*0.3 + x*0.1)/1000  is kept multiplied by    *)
(* 10000, which preserves its order.                                       *)
(***************************************************************************)
EXTENDS Integers, Sequences, FiniteSets, TLC

VARIABLES
    \* ---- one call of place_labels_on_svg ----
    pc,                 \* "idle" | "parse" | "loop" | "done" | "raised"
    error,              \* exception that left the call, or "none"
    svg_content,        \* argument: the SVG text, as what parsing it yields
    components,         \* argument: list of component dicts
    start_number,       \* argument
    increment,          \* argument
    add_leader_lines,   \* argument
    svg_root,           \* children of the parsed root element
    width, height,      \* canvas size read from the root's attributes
    sorted_components,  \* local
    i,                  \* loop index of enumerate(sorted_components)
    labels,             \* local: list of label dicts (the returned list)
    placed_positions,   \* local: positions already taken in this call
    distance,           \* local of the loop body: bound only when assigned
    prev_labels,        \* what the previous call on the same svg_content and
                        \* components returned, if there was one: position
                        \* and component_id of each label, and whether this
                        \* call's other arguments all differ from that call's
    \* ---- ComponentDetectorService instance and one detect call ----
    dpc,                \* "idle" | "load" | "detect" | "rank" | "done" | "raised"
    initialized,        \* self._initialized
    has_mask_generator, \* self.mask_generator has been assigned
    load_count,         \* number of times the load of SAM2 was attempted
    sam2_env,           \* what importing / building SAM2 does in this process
    cv2_available,      \* whether `import cv2` succeeds
    masks,              \* regions the strategy finds in the image, in order
    min_area,           \* argument
    max_components,     \* argument
    strategy,           \* strategy used by the current call
    detected,           \* local `components` of detect_components
    components_sorted,  \* the returned list
    \* ---- one evaluation of _classify_component ----
    shape_bbox,         \* argument: (x, y, w, h)
    shape_type,         \* the returned class, "none" before the call
    \* ---- requests that use the shared detector at the same time ----
    scheduling,         \* "event_loop": coroutines of one loop, which give
                        \* way only where they suspend; "threads": worker
                        \* threads, which give way between any two statements
    rpc,                \* per request: "idle" | "check" | "loading" |
                        \* "detect" | "done" | "raised"
    rstrategy,          \* per request: strategy it used
    \* ---- VectorizationService: a raster traced, then optimized ----
    scour_available,    \* whether `import scour.scour` succeeds
    opt_raster,         \* argument image_bytes of bitmap_to_svg
    opt_threshold,      \* argument threshold of bitmap_to_svg
    opt_traced,         \* what bitmap_to_svg returned, if it has run
    opt_results,        \* what each successive optimize_svg returned
    \* ---- one call of DiagramPipelineService ----
    ppc,                \* "idle" | "generate" | "vectorize" | "detect" |
                        \* "annotate" | "returned" | "raised"
    entry,              \* the method called
    auto_annotate,      \* argument of process_sketch
    label_args,         \* arguments start_number, number_increment,
                        \* add_leader_lines
    vector_args,        \* arguments threshold, optimize of vectorize_only
    sketch_bytes,       \* argument: the caller's raster (sketch, or the
                        \* reference image of annotate_existing_svg)
    caller_svg,         \* argument svg_content of annotate_existing_svg
    diagram_bytes,      \* local: raster returned by the generator
    svg_traced,         \* local svg_content: what bitmap_to_svg returned
    svg_optimized,      \* local
    stages,             \* calls made to the collaborators so far in this
                        \* run, each with the input it was given
    result,             \* the returned dict
    perror,             \* exception that left the call, or "none"
    \* ---- two calls of process_sketch in one process ----
    running,            \* the call that is executing on the thread of the
                        \* event loop, 0 when the loop is free to resume one
    run_pc,             \* per call: "idle" | "generating" | "resumable" |
                        \* "vectorize" | "detect" | "annotate" |
                        \* "returned" | "raised"
    run_args,           \* per call: the arguments auto_annotate and the
                        \* label arguments
    run_local,          \* per call: the locals diagram_bytes, svg_content,
                        \* components, and what SAM2 or OpenCV finds in
                        \* the diagram
    run_result          \* per call: the returned dict

annot_vars == <<pc, error, svg_content, components, start_number, increment,
                add_leader_lines, svg_root, width, height, sorted_components,
                i, labels, placed_positions, distance, prev_labels>>

detect_vars == <<dpc, initialized, has_mask_generator, load_count, sam2_env,
                 cv2_available, masks, min_area, max_components, strategy,
                 detected, components_sorted>>

shape_vars == <<shape_bbox, shape_type>>

request_vars == <<scheduling, rpc, rstrategy>>

\* state outside the annotator and the detector instance
optimize_vars == <<scour_available, opt_raster, opt_threshold, opt_traced,
                   opt_results>>

pipe_vars == <<ppc, entry, auto_annotate, label_args, vector_args, sketch_bytes, caller_svg,
               diagram_bytes, svg_traced, svg_optimized, stages, result, perror>>

run_vars == <<running, run_pc, run_args, run_local, run_result>>

extra_vars == <<shape_vars, request_vars, optimize_vars, pipe_vars, run_vars>>

vars == <<annot_vars, detect_vars, extra_vars>>

(***************************************************************************)
(* Bounds of the model                                                     *)
(***************************************************************************)
MaxComponents == 3      \* longest component list passed to one call
MaxMasks == 3           \* most regions found in one image
MaxLoads == 3           \* cap on the load counter
MaxSide == 12           \* every width and height up to this is classified
NumRequests == 2        \* requests that use the detector at the same time
MaxOptimize == 3        \* successive applications of optimize_svg

(***************************************************************************)
(* AnnotationService.__init__ and literals of the placement code           *)
(***************************************************************************)
circle_radius == 12
min_label_distance == 25
margin == 15
default_width == 800
default_height == 600

Range(s) == {s[k] : k \in 1..Len(s)}

(***************************************************************************)
(* Inputs the calls are drawn from                                         *)
(***************************************************************************)
Comp(id, x, y, w, h, area) == [id |-> id, bbox |-> <<x, y, w, h>>, area |-> area]

\* Component dicts as the detector produces them (id, bbox [x, y, w, h], area).
ComponentPool ==
    { Comp(0, 67, 100, 150, 150, 22500),
      Comp(1, 5, 100, 2, 2, 4),
      Comp(2, 0, 110, 2, 40, 80),
      Comp(4, 90, 40, 10, 10, 100),
      Comp(5, 300, 200, 40, 40, 100),
      Comp(6, 300, 200, 6, 48, 100) }

\* Lists of pairwise different components, at most MaxComponents long.
ComponentLists ==
    { s \in UNION { [1..n -> ComponentPool] : n \in 0..MaxComponents } :
        \A a, b \in 1..Len(s) : a # b => s[a] # s[b] }

IntAttr(n) == [kind |-> "int", val |-> n]       \* width="200"
AbsentAttr == [kind |-> "absent", val |-> 0]    \* no such attribute
TextAttr   == [kind |-> "text", val |-> 0]      \* width="100%", "210mm", "200.5"

Path(n) == [tag |-> "path", n |-> n]

\* SVG texts, described by what xml.etree makes of them.
SvgPool ==
    { [parsable |-> TRUE, width |-> IntAttr(200), height |-> IntAttr(300),
       children |-> <<Path(1), Path(2)>>],
      [parsable |-> TRUE, width |-> AbsentAttr, height |-> AbsentAttr,
       children |-> <<>>],
      [parsable |-> TRUE, width |-> TextAttr, height |-> IntAttr(300),
       children |-> <<Path(1)>>],
      [parsable |-> FALSE, width |-> AbsentAttr, height |-> AbsentAttr,
       children |-> <<>>] }

StartNumbers == {1, 10}
Increments == {0, 10}

(***************************************************************************)
(* Helpers of AnnotationService                                            *)
(***************************************************************************)
\* int(svg_root.get(name, default)): the default when the attribute is
\* absent, the number when it is an integer literal; int() raises ValueError
\* on any other text.
attr_raises(attr) == attr.kind = "text"

attr_int(attr, default) == IF attr.kind = "absent" THEN default ELSE attr.val

\* importance_score, times 10000:  area - (y * 0.3 + x * 0.1) / 1000
importance_score_bottom_right(comp) ==
    comp.area * 10000 + (comp.bbox[2] * 3 + comp.bbox[1])

importance_score(comp) ==
    comp.area * 10000 - (comp.bbox[2] * 3 + comp.bbox[1])

sorted_reverse_ties_reversed(s, keys) ==
    [p \in 1..Len(s) |->
        s[CHOOSE k \in 1..Len(s) :
            Cardinality({ j \in 1..Len(s) :
                \/ keys[j] > keys[k]
                \/ (keys[j] = keys[k] /\ j > k) }) = p - 1]]

\* sorted(s, key=..., reverse=True), keys[k] being the key of s[k]:
\* descending by key; the sort is stable, elements with equal keys keep
\* their input order.
sorted_reverse(s, keys) ==
    [p \in 1..Len(s) |->
        s[CHOOSE k \in 1..Len(s) :
            Cardinality({ j \in 1..Len(s) :
                \/ keys[j] > keys[k]
                \/ (keys[j] = keys[k] /\ j < k) }) = p - 1]]

sort_components_by_importance(comps) ==
    sorted_reverse(comps, [k \in 1..Len(comps) |-> importance_score(comps[k])])

label_number_next(start, idx, inc) == start + ((idx + 1) * inc)

\* label_number = start_number + (i * increment)
label_number_of(start, idx, inc) == start + (idx * inc)

calculate_center(bbox) == <<bbox[1] + (bbox[3] \div 2), bbox[2] + (bbox[4] \div 2)>>

\* _distance, squared
distance_sq(pos1, pos2) ==
    (pos1[1] - pos2[1]) * (pos1[1] - pos2[1]) + (pos1[2] - pos2[2]) * (pos1[2] - pos2[2])

is_position_clear_last_only(position, existing_positions, min_distance) ==
    \/ existing_positions = <<>>
    \/ ~(distance_sq(position, existing_positions[Len(existing_positions)])
            < min_distance * min_distance)

\* _is_position_clear: no existing position is nearer than min_distance
is_position_clear(position, existing_positions, min_distance) ==
    \A k \in 1..Len(existing_positions) :
        ~(distance_sq(position, existing_positions[k]) < min_distance * min_distance)

candidates_left_first(bbox) ==
    LET x == bbox[1]  y == bbox[2]  w == bbox[3]  h == bbox[4]
    IN  << <<x - margin - 30, y>>,
           <<x + w + margin, y + (h \div 2)>>,
           <<x + w + margin, y>>,
           <<x + (w \div 2) - 10, y - margin - 15>>,
           <<x + (w \div 2) - 10, y + h + margin>>,
           <<x + w + margin, y + h>>,
           <<x - margin - 30, y + (h \div 2)>> >>

\* the candidate positions, in order of preference
candidates(bbox) ==
    LET x == bbox[1]  y == bbox[2]  w == bbox[3]  h == bbox[4]
    IN  << <<x + w + margin, y>>,                       \* right-top
           <<x + w + margin, y + (h \div 2)>>,          \* right-middle
           <<x - margin - 30, y>>,                      \* left-top
           <<x + (w \div 2) - 10, y - margin - 15>>,    \* top-center
           <<x + (w \div 2) - 10, y + h + margin>>,     \* bottom-center
           <<x + w + margin, y + h>>,                   \* right-bottom
           <<x - margin - 30, y + (h \div 2)>> >>       \* left-middle

out_of_bounds_no_left(pos, img_width, img_height) ==
    \/ pos[1] > img_width - 30
    \/ pos[2] < 15 \/ pos[2] > img_height - 10

\* the two `continue` tests of the candidate loop
out_of_bounds(pos, img_width, img_height) ==
    \/ pos[1] < 10 \/ pos[1] > img_width - 30
    \/ pos[2] < 15 \/ pos[2] > img_height - 10

fallback_position_last(cands) == cands[Len(cands)]

\* "Fallback: use first candidate even if overlapping"
fallback_position(cands) == cands[1]

\* the candidate loop, from candidate k on
RECURSIVE scan_candidates(_, _, _, _, _)
scan_candidates(cands, k, existing_positions, img_width, img_height) ==
    IF k > Len(cands)
    THEN fallback_position(cands)
    ELSE IF out_of_bounds(cands[k], img_width, img_height)
         THEN scan_candidates(cands, k + 1, existing_positions, img_width, img_height)
         ELSE IF is_position_clear(cands[k], existing_positions, min_label_distance)
              THEN cands[k]
              ELSE scan_candidates(cands, k + 1, existing_positions, img_width, img_height)

calculate_label_position(bbox, existing_positions, img_width, img_height) ==
    scan_candidates(candidates(bbox), 1, existing_positions, img_width, img_height)

\* the <g class="patent-label"> element: circle at the position, number text
LabelGroup(label_number, position) ==
    [tag |-> "g", cx |-> position[1], cy |-> position[2], r |-> circle_radius,
     tx |-> position[1], ty |-> position[2] + 5, text |-> label_number]

add_label_to_svg_first(root, label_number, position) ==
    <<LabelGroup(label_number, position)>> \o root

\* _add_label_to_svg: svg_root.append(group)
add_label_to_svg(root, label_number, position) ==
    Append(root, LabelGroup(label_number, position))

\* the 2 of `length - self.circle_radius - 2`
line_gap == 2

\* the least n with n >= s * d / sqrt(len2), for 0 <= d <= sqrt(len2)
ceil_of_step(s, d, len2) ==
    CHOOSE n \in 0..s :
        /\ n * n * len2 >= s * s * d * d
        /\ n = 0 \/ (n - 1) * (n - 1) * len2 < s * s * d * d

\* the greatest n with n <= s * d / sqrt(len2), for 0 <= d <= sqrt(len2)
floor_of_step(s, d, len2) ==
    CHOOSE n \in 0..s :
        /\ n * n * len2 <= s * s * d * d
        /\ (n + 1) * (n + 1) * len2 > s * s * d * d

\* int(a1 + d * factor) with d = a2 - a1 and
\* factor = (length - shorten) / length, that is int(a2 - shorten * d / length):
\* int() drops the fraction, towards zero
shortened_end(a1, a2, len2, shorten) ==
    LET d == a2 - a1
        below == IF d >= 0 THEN a2 - ceil_of_step(shorten, d, len2)
                 ELSE a2 + floor_of_step(shorten, 0 - d, len2)
        whole == \E n \in 0..shorten : n * n * len2 = shorten * shorten * d * d
    IN  IF below >= 0 \/ whole THEN below ELSE below + 1

\* the <line class="leader-line"> element: it starts at from_pos and ends
\* circle_radius + 2 before to_pos
LeaderLine(from_pos, to_pos) ==
    LET dx == to_pos[1] - from_pos[1]
        dy == to_pos[2] - from_pos[2]
        len2 == dx * dx + dy * dy
        shorten == circle_radius + line_gap
    IN  [tag |-> "line", x1 |-> from_pos[1], y1 |-> from_pos[2],
         x2 |-> IF len2 > 0 THEN shortened_end(from_pos[1], to_pos[1], len2, shorten)
                ELSE to_pos[1],
         y2 |-> IF len2 > 0 THEN shortened_end(from_pos[2], to_pos[2], len2, shorten)
                ELSE to_pos[2]]

\* _add_leader_line: svg_root.append(line)
add_leader_line(root, from_pos, to_pos) == Append(root, LeaderLine(from_pos, to_pos))

Unbound == [bound |-> FALSE, sq |-> 0]

leader_distance == 30

\* `if add_leader_lines: ... if distance > 30:` of the loop body
leader_line_needed(add, d2) == add /\ d2 > leader_distance * leader_distance

\* `add_leader_lines and distance > 30` of the label dict: `distance` is
\* read only when add_leader_lines is true; reading it unbound is a NameError
has_leader_line_raises(add, dist) == add /\ ~dist.bound

has_leader_line_at_30(add, dist) == add /\ dist.sq >= leader_distance * leader_distance

has_leader_line(add, dist) == add /\ dist.sq > leader_distance * leader_distance

NoPrevious == [returned |-> FALSE, labels |-> <<>>, other_args |-> FALSE]

initial_positions_kept(previous) ==
    [k \in 1..Len(previous.labels) |-> previous.labels[k].position]

\* `placed_positions = []`: every call starts from an empty list, whatever
\* the calls before it placed
initial_positions(previous) == <<>>

(***************************************************************************)
(* place_labels_on_svg                                                     *)
(***************************************************************************)
AnnotInit ==
    /\ pc = "idle"
    /\ error = "none"
    /\ svg_content = [parsable |-> TRUE, width |-> AbsentAttr,
                      height |-> AbsentAttr, children |-> <<>>]
    /\ components = <<>>
    /\ start_number = 10
    /\ increment = 10
    /\ add_leader_lines = TRUE
    /\ svg_root = <<>>
    /\ width = 0
    /\ height = 0
    /\ sorted_components = <<>>
    /\ i = 0
    /\ labels = <<>>
    /\ placed_positions = <<>>
    /\ distance = Unbound
    /\ prev_labels = NoPrevious

\* A caller invokes place_labels_on_svg(svg, comps, start, inc, leader).
Call ==
    /\ pc = "idle"
    /\ \E svg \in SvgPool, comps \in ComponentLists, start \in StartNumbers,
          inc \in Increments, leader \in BOOLEAN :
        /\ svg_content' = svg
        /\ components' = comps
        /\ start_number' = start
        /\ increment' = inc
        /\ add_leader_lines' = leader
    /\ pc' = "parse"
    /\ UNCHANGED <<error, svg_root, width, height, sorted_components, i, labels,
                   placed_positions, distance, prev_labels>>
    /\ UNCHANGED <<detect_vars, extra_vars>>

\* Lines 50-66: parse the text (ParseError leaves the call when neither
\* attempt parses), read the canvas size (ValueError leaves the call when an
\* attribute is not an integer literal), rank the components, start the lists.
Parse ==
    /\ pc = "parse"
    /\ IF ~svg_content.parsable
       THEN /\ pc' = "raised"
            /\ error' = "ParseError"
            /\ UNCHANGED <<svg_root, width, height, sorted_components, i, labels,
                           placed_positions, distance>>
       ELSE IF attr_raises(svg_content.width) \/ attr_raises(svg_content.height)
       THEN /\ pc' = "raised"
            /\ error' = "ValueError"
            /\ svg_root' = svg_content.children
            /\ UNCHANGED <<width, height, sorted_components, i, labels,
                           placed_positions, distance>>
       ELSE /\ pc' = "loop"
            /\ error' = "none"
            /\ svg_root' = svg_content.children
            /\ width' = attr_int(svg_content.width, default_width)
            /\ height' = attr_int(svg_content.height, default_height)
            /\ sorted_components' = sort_components_by_importance(components)
            /\ i' = 0
            /\ labels' = <<>>
            /\ placed_positions' = initial_positions(prev_labels)
            /\ distance' = Unbound
    /\ UNCHANGED <<svg_content, components, start_number, increment,
                   add_leader_lines, prev_labels>>
    /\ UNCHANGED <<detect_vars, extra_vars>>

\* Lines 68-107: one iteration of the loop over sorted_components.
PlaceLabel ==
    /\ pc = "loop"
    /\ i < Len(sorted_components)
    /\ LET component == sorted_components[i + 1]
           label_number == label_number_of(start_number, i, increment)
           bbox == component.bbox
           component_center == calculate_center(bbox)
           label_pos == calculate_label_position(bbox, placed_positions, width, height)
           d2 == distance_sq(label_pos, component_center)
           with_label == add_label_to_svg(svg_root, label_number, label_pos)
           dist == IF add_leader_lines THEN [bound |-> TRUE, sq |-> d2] ELSE distance
       IN  /\ svg_root' = IF leader_line_needed(add_leader_lines, d2)
                          THEN add_leader_line(with_label, component_center, label_pos)
                          ELSE with_label
           /\ distance' = dist
           /\ IF has_leader_line_raises(add_leader_lines, dist)
              THEN /\ pc' = "raised"
                   /\ error' = "NameError"
                   /\ UNCHANGED <<i, labels, placed_positions>>
              ELSE /\ labels' = Append(labels,
                          [number |-> label_number,
                           position |-> label_pos,
                           component_id |-> component.id,
                           has_leader_line |-> has_leader_line(add_leader_lines, dist)])
                   /\ placed_positions' = Append(placed_positions, label_pos)
                   /\ i' = i + 1
                   /\ UNCHANGED <<pc, error>>
    /\ UNCHANGED <<svg_content, components, start_number, increment,
                   add_leader_lines, width, height, sorted_components, prev_labels>>
    /\ UNCHANGED <<detect_vars, extra_vars>>

\* Lines 109-113: the loop is over; (annotated_svg, labels) is returned.
Return ==
    /\ pc = "loop"
    /\ i = Len(sorted_components)
    /\ pc' = "done"
    /\ UNCHANGED <<error, svg_content, components, start_number, increment,
                   add_leader_lines, svg_root, width, height, sorted_components,
                   i, labels, placed_positions, distance, prev_labels>>
    /\ UNCHANGED <<detect_vars, extra_vars>>

\* The caller invokes the same instance again on the same SVG text and
\* component list, with any numbering and leader-line arguments; the labels
\* of the call that just returned are kept for comparison.
CallAgain ==
    /\ pc = "done"
    /\ \E start \in StartNumbers, inc \in Increments, leader \in BOOLEAN :
        /\ start_number' = start
        /\ increment' = inc
        /\ add_leader_lines' = leader
        /\ prev_labels' =
              [returned |-> TRUE,
               labels |-> [k \in 1..Len(labels) |->
                             [position |-> labels[k].position,
                              component_id |-> labels[k].component_id]],
               other_args |-> (start # start_number /\ inc # increment
                                  /\ leader # add_leader_lines)]
    /\ pc' = "parse"
    \* the locals of the call that returned are gone
    /\ svg_root' = <<>>
    /\ width' = 0
    /\ height' = 0
    /\ sorted_components' = <<>>
    /\ i' = 0
    /\ labels' = <<>>
    /\ placed_positions' = <<>>
    /\ distance' = Unbound
    /\ UNCHANGED <<error, svg_content, components>>
    /\ UNCHANGED <<detect_vars, extra_vars>>

(***************************************************************************)
(* ComponentDetectorService                                                *)
(***************************************************************************)
Mask(x, y, w, h, area) == [bbox |-> <<x, y, w, h>>, area |-> area]

\* Masks SAM2AutomaticMaskGenerator.generate can return: bbox and pixel count.
Sam2MaskPool ==
    { Mask(10, 10, 100, 100, 1000),
      Mask(200, 50, 300, 50, 300),
      Mask(50, 200, 20, 100, 300),
      Mask(400, 400, 40, 20, 100),
      Mask(5, 5, 30, 50, 99) }

Contour(x, y, w, h, area2) == [bbox |-> <<x, y, w, h>>, area2 |-> area2]

\* Contours cv2.findContours can return: bounding rectangle and twice the
\* cv2.contourArea (a polygon with integer vertices has an area that is a
\* multiple of 0.5).
ContourPool ==
    { Contour(10, 10, 100, 100, 2000),
      Contour(200, 50, 300, 50, 600),
      Contour(50, 200, 20, 100, 600),
      Contour(400, 400, 50, 40, 201),
      Contour(500, 10, 40, 20, 200),
      Contour(5, 5, 7, 0, 199) }

DistinctLists(pool) ==
    { s \in UNION { [1..n -> pool] : n \in 0..MaxMasks } :
        \A a, b \in 1..Len(s) : a # b => s[a] # s[b] }

MinAreas == {0, 100}
MaxComponentsArgs == {0, 1, 2, 50}
Sam2Envs == {"ok", "not_installed", "load_error"}

classify_component_inclusive(bbox) ==
    LET w == bbox[3]  h == bbox[4]
    IN  IF h = 0 THEN "unknown"
        ELSE IF 9 * h < 10 * w /\ 10 * w < 11 * h THEN "circular"
        ELSE IF 2 * w >= 5 * h THEN "horizontal"
        ELSE IF 5 * w < 2 * h THEN "vertical"
        ELSE IF 2 * w > 3 * h THEN "rectangular_h"
        ELSE IF 100 * w < 67 * h THEN "rectangular_v"
        ELSE "square"

\* _classify_component: aspect_ratio = w / h against the literals, for h > 0
\* (w/h < p/q  iff  q*w < p*h)
classify_component(bbox) ==
    LET w == bbox[3]  h == bbox[4]
    IN  IF h = 0 THEN "unknown"
        ELSE IF 9 * h < 10 * w /\ 10 * w < 11 * h THEN "circular"
        ELSE IF 2 * w > 5 * h THEN "horizontal"
        ELSE IF 5 * w < 2 * h THEN "vertical"
        ELSE IF 2 * w > 3 * h THEN "rectangular_h"
        ELSE IF 100 * w < 67 * h THEN "rectangular_v"
        ELSE "square"

detect_with_sam2_strict(ms, min_a) ==
    LET all == [k \in 1..Len(ms) |->
                  [id |-> k - 1, bbox |-> ms[k].bbox, area |-> ms[k].area,
                   type |-> classify_component(ms[k].bbox)]]
    IN  SelectSeq(all, LAMBDA c : c.area > min_a)

\* _detect_with_sam2, after generate(): masks below min_area are skipped,
\* the others keep their index in the mask list as id
detect_with_sam2(ms, min_a) ==
    LET all == [k \in 1..Len(ms) |->
                  [id |-> k - 1, bbox |-> ms[k].bbox, area |-> ms[k].area,
                   type |-> classify_component(ms[k].bbox)]]
    IN  SelectSeq(all, LAMBDA c : ~(c.area < min_a))

\* _detect_with_fallback, after findContours(): contours whose contourArea
\* is below min_area are skipped, the others keep their index as id and
\* carry int(area)
detect_with_fallback(cs, min_a) ==
    LET all == [k \in 1..Len(cs) |->
                  [id |-> k - 1, bbox |-> cs[k].bbox, area2 |-> cs[k].area2,
                   type |-> classify_component(cs[k].bbox)]]
        kept == SelectSeq(all, LAMBDA c : ~(c.area2 < 2 * min_a))
    IN  [k \in 1..Len(kept) |->
            [id |-> kept[k].id, bbox |-> kept[k].bbox,
             area |-> kept[k].area2 \div 2, type |-> kept[k].type]]

area_key(c) == c.area

\* s[:n]
slice_to(s, n) ==
    IF n >= 0
    THEN SubSeq(s, 1, IF n < Len(s) THEN n ELSE Len(s))
    ELSE SubSeq(s, 1, IF Len(s) + n > 0 THEN Len(s) + n ELSE 0)

rank_components_unsorted(comps, n) == slice_to(comps, n)

\* sorted(components, key=lambda x: x['area'], reverse=True)[:max_components]
rank_components(comps, n) ==
    slice_to(sorted_reverse(comps, [k \in 1..Len(comps) |-> area_key(comps[k])]), n)

DetectIdle ==
    /\ dpc = "idle"
    /\ initialized = FALSE
    /\ has_mask_generator = FALSE
    /\ load_count = 0
    /\ masks = <<>>
    /\ min_area = 100
    /\ max_components = 50
    /\ strategy = "none"
    /\ detected = <<>>
    /\ components_sorted = <<>>

\* ComponentDetectorService(): nothing is loaded; the process either has a
\* working SAM2, or none installed, or one that fails to build, and has
\* OpenCV or not.
DetectInit ==
    /\ DetectIdle
    /\ sam2_env \in Sam2Envs
    /\ cv2_available \in BOOLEAN

\* Lines 69-90: a caller invokes detect_components(image, min_area,
\* max_components).
DetectCall ==
    /\ dpc \in {"idle", "done", "raised"}
    /\ initialized \/ load_count < MaxLoads
    /\ \E ma \in MinAreas, mc \in MaxComponentsArgs :
        /\ min_area' = ma
        /\ max_components' = mc
    /\ masks' = <<>>
    /\ detected' = <<>>
    /\ components_sorted' = <<>>
    /\ strategy' = "none"
    /\ dpc' = "load"
    /\ UNCHANGED <<initialized, has_mask_generator, load_count, sam2_env, cv2_available>>
    /\ UNCHANGED <<annot_vars, extra_vars>>

needs_load_always(is_initialized) == TRUE

\* Lines 31-32: `if self._initialized: return`
needs_load(is_initialized) == ~is_initialized

\* Line 93 and _lazy_load_model: nothing when _initialized; otherwise one
\* attempt to import and build SAM2, which sets mask_generator and
\* _initialized, or leaves _initialized False after ImportError / Exception.
LazyLoad ==
    /\ dpc = "load"
    /\ IF ~needs_load(initialized)
       THEN UNCHANGED <<initialized, has_mask_generator, load_count>>
       ELSE /\ load_count' = load_count + 1
            /\ IF sam2_env = "ok"
               THEN /\ has_mask_generator' = TRUE
                    /\ initialized' = TRUE
               ELSE /\ initialized' = FALSE
                    /\ UNCHANGED has_mask_generator
    /\ dpc' = "detect"
    /\ UNCHANGED <<sam2_env, cv2_available, masks, min_area, max_components,
                   strategy, detected, components_sorted>>
    /\ UNCHANGED <<annot_vars, extra_vars>>

\* Lines 96-97: `self._initialized and self.mask_generator` holds; generate()
\* returns masks or raises, and what it raises leaves detect_components.
DetectWithSam2 ==
    /\ dpc = "detect"
    /\ initialized /\ has_mask_generator
    /\ strategy' = "sam2"
    /\ \E ms \in DistinctLists(Sam2MaskPool), raises \in BOOLEAN :
        IF raises
        THEN /\ dpc' = "raised"
             /\ UNCHANGED <<masks, detected>>
        ELSE /\ masks' = ms
             /\ detected' = detect_with_sam2(ms, min_area)
             /\ dpc' = "rank"
    /\ UNCHANGED <<initialized, has_mask_generator, load_count, sam2_env,
                   cv2_available, min_area, max_components, components_sorted>>
    /\ UNCHANGED <<annot_vars, extra_vars>>

\* Lines 98-99: otherwise the contour strategy; without OpenCV it logs the
\* ImportError and finds nothing.
DetectWithFallback ==
    /\ dpc = "detect"
    /\ ~(initialized /\ has_mask_generator)
    /\ strategy' = "fallback"
    /\ IF cv2_available
       THEN \E cs \in DistinctLists(ContourPool) :
               /\ masks' = cs
               /\ detected' = detect_with_fallback(cs, min_area)
       ELSE /\ masks' = <<>>
            /\ detected' = <<>>
    /\ dpc' = "rank"
    /\ UNCHANGED <<initialized, has_mask_generator, load_count, sam2_env,
                   cv2_available, min_area, max_components, components_sorted>>
    /\ UNCHANGED <<annot_vars, extra_vars>>

\* Lines 101-109: rank by area, keep the first max_components, return.
Rank ==
    /\ dpc = "rank"
    /\ components_sorted' = rank_components(detected, max_components)
    /\ dpc' = "done"
    /\ UNCHANGED <<initialized, has_mask_generator, load_count, sam2_env,
                   cv2_available, masks, min_area, max_components, strategy, detected>>
    /\ UNCHANGED <<annot_vars, extra_vars>>

(***************************************************************************)
(* _classify_component on its own                                          *)
(***************************************************************************)
\* widths and heights: every small one, and the sizes of real drawings
Sides == 0..MaxSide \cup {20, 50, 100, 300}

Offsets == {0, 50}

BoxPool == Offsets \X Offsets \X Sides \X Sides

ShapeIdle ==
    /\ shape_bbox = <<0, 0, 0, 0>>
    /\ shape_type = "none"

\* a caller holds a bounding box
ShapeInit ==
    /\ shape_bbox \in BoxPool
    /\ shape_type = "none"

\* self._classify_component(bbox)
Classify ==
    /\ shape_type = "none"
    /\ shape_type' = classify_component(shape_bbox)
    /\ UNCHANGED <<shape_bbox, annot_vars, detect_vars, request_vars, optimize_vars, pipe_vars, run_vars>>

(***************************************************************************)
(* Two requests on the shared instance `component_detector`                *)
(*                                                                         *)
(* Each request is one execution of detect_components.  What it finds in   *)
(* its image is local to it (SpecDetect); here a request keeps the         *)
(* strategy it used and how it ended.  _lazy_load_model takes no lock: the *)
(* test of _initialized (line 31) and the assignments at the end of the    *)
(* load (lines 52-58) are separate statements.  detect_components has no   *)
(* await that suspends before its return, so as a coroutine it runs from   *)
(* call to return without giving way.                                      *)
(***************************************************************************)
Requests == 1..NumRequests

Schedulings == {"event_loop", "threads"}

RequestsIdle ==
    /\ scheduling = "event_loop"
    /\ rpc = [r \in Requests |-> "idle"]
    /\ rstrategy = [r \in Requests |-> "none"]

RequestsInit ==
    /\ scheduling \in Schedulings
    /\ rpc = [r \in Requests |-> "idle"]
    /\ rstrategy = [r \in Requests |-> "none"]

\* request r may take a step: under the event loop, no other request is in
\* the middle of detect_components
may_run(r) ==
    scheduling = "event_loop" =>
        \A o \in Requests \ {r} : rpc[o] \in {"idle", "done", "raised"}

shared_unchanged == UNCHANGED <<dpc, sam2_env, cv2_available, masks, min_area,
                               max_components, strategy, detected,
                               components_sorted, scheduling>>

\* Lines 69-93: detect_components is entered and calls _lazy_load_model
RequestCall(r) ==
    /\ rpc[r] = "idle"
    /\ may_run(r)
    /\ rpc' = [rpc EXCEPT ![r] = "check"]
    /\ UNCHANGED <<initialized, has_mask_generator, load_count, rstrategy>>
    /\ shared_unchanged
    /\ UNCHANGED <<annot_vars, shape_vars, optimize_vars, pipe_vars, run_vars>>

\* Lines 31-32: `if self._initialized: return`
RequestCheck(r) ==
    /\ rpc[r] = "check"
    /\ may_run(r)
    /\ rpc' = [rpc EXCEPT ![r] = IF initialized THEN "detect" ELSE "loading"]
    /\ UNCHANGED <<initialized, has_mask_generator, load_count, rstrategy>>
    /\ shared_unchanged
    /\ UNCHANGED <<annot_vars, shape_vars, optimize_vars, pipe_vars, run_vars>>

\* Lines 34-67: the import and build of SAM2, then the assignments of
\* mask_generator and _initialized, or the except branches
RequestLoad(r) ==
    /\ rpc[r] = "loading"
    /\ may_run(r)
    /\ load_count' = load_count + 1
    /\ IF sam2_env = "ok"
       THEN /\ has_mask_generator' = TRUE
            /\ initialized' = TRUE
       ELSE /\ initialized' = FALSE
            /\ UNCHANGED has_mask_generator
    /\ rpc' = [rpc EXCEPT ![r] = "detect"]
    /\ UNCHANGED rstrategy
    /\ shared_unchanged
    /\ UNCHANGED <<annot_vars, shape_vars, optimize_vars, pipe_vars, run_vars>>

\* Lines 96-109: the strategy chosen from the flags, the detection, the
\* ranking and the return; generate() may raise
RequestDetect(r) ==
    /\ rpc[r] = "detect"
    /\ may_run(r)
    /\ IF initialized /\ has_mask_generator
       THEN /\ rstrategy' = [rstrategy EXCEPT ![r] = "sam2"]
            /\ \E raises \in BOOLEAN :
                 rpc' = [rpc EXCEPT ![r] = IF raises THEN "raised" ELSE "done"]
       ELSE /\ rstrategy' = [rstrategy EXCEPT ![r] = "fallback"]
            /\ rpc' = [rpc EXCEPT ![r] = "done"]
    /\ UNCHANGED <<initialized, has_mask_generator, load_count>>
    /\ shared_unchanged
    /\ UNCHANGED <<annot_vars, shape_vars, optimize_vars, pipe_vars, run_vars>>

(***************************************************************************)
(* VectorizationService                                                    *)
(*                                                                         *)
(* A raster is its size and the gray levels of the regions potrace would   *)
(* outline in it.  An SVG text is described by what decides how xml.etree  *)
(* reads and writes it: how the SVG namespace is declared, the size        *)
(* attributes, the path elements, and the whitespace between the tags.     *)
(* viewBox and version are written once from the size and never change.    *)
(***************************************************************************)
Raster(id, w, h, levels) == [id |-> id, size |-> <<w, h>>, levels |-> levels]

\* a drawing in dark and middle gray on white, a uniformly dark image, a
\* uniformly white image, a sketch
RasterPool ==
    { Raster("diagram_a", 800, 600, <<255, 0, 140>>),
      Raster("diagram_b", 512, 512, <<100>>),
      Raster("diagram_c", 512, 512, <<255>>),
      Raster("sketch", 640, 480, <<255, 60>>) }

Thresholds == {0, 100, 128, 255}

\* whitespace between tags: None (no text in the tree), nothing in the
\* text, or a newline followed by two spaces per level
None == [kind |-> "none", spaces |-> 0]

Empty == [kind |-> "empty", spaces |-> 0]

Indent(level) == [kind |-> "indent", spaces |-> 2 * level]

\* `not t or not t.strip()`
blank(t) == t.kind \in {"none", "empty", "indent"}

\* Lines 59, 65-77: pixels above the threshold are set, and the regions of
\* set pixels are outlined, in order
trace(raster, threshold) ==
    SelectSeq([k \in 1..Len(raster.levels) |->
                   [n |-> k, level |-> raster.levels[k]]],
              LAMBDA r : r.level > threshold)

\* _path_to_svg: ET.Element('svg', {'xmlns': ...}) with one path per curve,
\* written by ET.tostring: the tags are unqualified, so xmlns is written as
\* the plain attribute it is and no whitespace is written
path_to_svg(curves, w, h) ==
    [parsable |-> TRUE, ns |-> "xmlns", width |-> IntAttr(w),
     height |-> IntAttr(h), text |-> Empty,
     children |-> [k \in 1..Len(curves) |->
                      [tag |-> "path", n |-> curves[k].n, tail |-> Empty]],
     tail |-> Empty]

bitmap_to_svg(raster, threshold) ==
    path_to_svg(trace(raster, threshold), raster.size[1], raster.size[2])

\* ET.fromstring: the tags become {namespace}tag whichever way the
\* namespace was declared, empty text is None, and what follows the end of
\* the root element is not kept
fromstring(text) ==
    [qualified |-> TRUE, width |-> text.width, height |-> text.height,
     text |-> IF text.text = Empty THEN None ELSE text.text,
     children |-> [k \in 1..Len(text.children) |->
                      [tag |-> text.children[k].tag, n |-> text.children[k].n,
                       tail |-> IF text.children[k].tail = Empty
                                THEN None ELSE text.children[k].tail]],
     tail |-> None]

\* ET.tostring(root, encoding='unicode'): qualified tags are written with
\* the generated prefix ns0, the text and the tails are written when there
\* are any, the tail of the root included
tostring(tree) ==
    [parsable |-> TRUE, ns |-> IF tree.qualified THEN "xmlns:ns0" ELSE "xmlns",
     width |-> tree.width, height |-> tree.height,
     text |-> IF tree.text = None THEN Empty ELSE tree.text,
     children |-> [k \in 1..Len(tree.children) |->
                      [tag |-> tree.children[k].tag, n |-> tree.children[k].n,
                       tail |-> IF tree.children[k].tail = None
                                THEN Empty ELSE tree.children[k].tail]],
     tail |-> IF tree.tail = None THEN Empty ELSE tree.tail]

reindent_deeper(t, level) ==
    IF blank(t) THEN Indent(level + (t.spaces \div 2)) ELSE t

\* `if not t or not t.strip(): t = indent`
reindent(t, level) == IF blank(t) THEN Indent(level) ELSE t

\* _indent_xml(root) on a root whose children have no children: lines
\* 182-190 for the root, the else branch (192-193) at level 1 for each
\* child, and line 189 once more on the last child
indent_xml(tree) ==
    LET n == Len(tree.children)
        inner == [k \in 1..n |->
                    [tree.children[k] EXCEPT
                        !.tail = reindent(tree.children[k].tail, 1)]]
        outer == [k \in 1..n |->
                    IF k = n
                    THEN [inner[k] EXCEPT !.tail = reindent(inner[k].tail, 0)]
                    ELSE inner[k]]
    IN  IF n > 0
        THEN [tree EXCEPT !.text = reindent(tree.text, 1),
                          !.tail = reindent(tree.tail, 0),
                          !.children = outer]
        ELSE tree

\* _basic_svg_optimization: the parser keeps no comment, so the loop of
\* lines 170-172 removes nothing
basic_svg_optimization(text) == tostring(indent_xml(fromstring(text)))

\* scour.scour.scourString with the options of lines 147-154.  scour is not
\* part of this repository: it reads the document and writes it again in
\* its own layout (default namespace, newline and two-space indentation,
\* final newline), whatever the layout it was given.
scour_string(text) ==
    LET n == Len(text.children)
    IN  [parsable |-> TRUE, ns |-> "xmlns", width |-> text.width,
         height |-> text.height,
         text |-> IF n > 0 THEN Indent(1) ELSE Empty,
         children |-> [k \in 1..n |->
                          [tag |-> text.children[k].tag, n |-> text.children[k].n,
                           tail |-> IF k = n THEN Indent(0) ELSE Indent(1)]],
         tail |-> Indent(0)]

optimize_svg(text, scour) ==
    IF scour THEN scour_string(text) ELSE basic_svg_optimization(text)

NotTraced == [parsable |-> FALSE]

OptimizeIdle ==
    /\ scour_available = FALSE
    /\ opt_raster = Raster("diagram_c", 512, 512, <<255>>)
    /\ opt_threshold = 128
    /\ opt_traced = NotTraced
    /\ opt_results = <<>>

\* a caller holds a raster and a threshold; scour is installed or not
OptimizeInit ==
    /\ scour_available \in BOOLEAN
    /\ opt_raster \in RasterPool
    /\ opt_threshold \in Thresholds
    /\ opt_traced = NotTraced
    /\ opt_results = <<>>

\* vectorizer.bitmap_to_svg(image_bytes, threshold)
BitmapToSvg ==
    /\ opt_traced = NotTraced
    /\ opt_traced' = bitmap_to_svg(opt_raster, opt_threshold)
    /\ UNCHANGED <<scour_available, opt_raster, opt_threshold, opt_results>>
    /\ UNCHANGED <<annot_vars, detect_vars, shape_vars, request_vars, pipe_vars, run_vars>>

\* vectorizer.optimize_svg applied to the traced document, or to what the
\* previous optimize_svg returned
OptimizeSvg ==
    /\ opt_traced # NotTraced
    /\ Len(opt_results) < MaxOptimize
    /\ LET arg == IF opt_results = <<>> THEN opt_traced
                  ELSE opt_results[Len(opt_results)]
       IN  opt_results' = Append(opt_results, optimize_svg(arg, scour_available))
    /\ UNCHANGED <<scour_available, opt_raster, opt_threshold, opt_traced>>
    /\ UNCHANGED <<annot_vars, detect_vars, shape_vars, request_vars, pipe_vars, run_vars>>

(***************************************************************************)
(* DiagramPipelineService                                                  *)
(*                                                                         *)
(* process_sketch and annotate_existing_svg on the module-level instance   *)
(* `diagram_pipeline`, whose collaborators are the module-level generator, *)
(* vectorizer, detector and annotator.  A call of the detector or of the   *)
(* annotator runs the actions of that service; `stages` records each call  *)
(* made to a collaborator with the input it was given.                     *)
(***************************************************************************)
GeneratedRasters == RasterPool \ {Raster("sketch", 640, 480, <<255, 60>>)}

\* what leaves generate_technical_diagram when it does not return: any
\* exception of the provider call is logged and raised again, a timeout of
\* the HTTP client included
GenerationFailures == {"GenerationError", "TimeoutError"}

LabelArgs ==
    { [start_number |-> 10, number_increment |-> 10, add_leader_lines |-> TRUE],
      [start_number |-> 1, number_increment |-> 10, add_leader_lines |-> FALSE] }

\* int((time.time() - start_time) * 1000)
ElapsedMs == {0, 1500}

\* reference images given to annotate_existing_svg
ReferenceImages == {Raster("diagram_a", 800, 600, <<255, 0, 140>>)}

\* rasters and thresholds given to vectorize_only: a solid white image and
\* a drawing, at the default threshold and at the highest
PreviewImages ==
    { Raster("diagram_c", 512, 512, <<255>>),
      Raster("diagram_a", 800, 600, <<255, 0, 140>>) }

PreviewThresholds == {128, 255}

NoRaster == Raster("none", 0, 0, <<>>)

NoResult == [returned |-> FALSE]

Stage(name, input) == [stage |-> name, input |-> input]

default_threshold == 128
pipeline_min_area == 100
pipeline_max_components == 50

on_generation_failure_retry == "generate"

\* nothing in process_sketch catches what the generator raises
on_generation_failure == "raised"

returns_early_never(auto) == FALSE

\* line 85: `if not auto_annotate:`
returns_early(auto) == ~auto

detection_image_sketch(sketch, diagram) == sketch

\* line 100: image_bytes=diagram_bytes
detection_image(sketch, diagram) == diagram

sum_area(comps) ==
    LET RECURSIVE total(_)
        total(k) == IF k = 0 THEN 0 ELSE comps[k].area + total(k - 1)
    IN  total(Len(comps))

avg_component_area_of_one_more(comps) ==
    IF Len(comps) > 0
    THEN [num |-> sum_area(comps), den |-> Len(comps) + 1]
    ELSE [num |-> 0, den |-> 1]

\* line 136: sum(c['area'] for c in components) / len(components) if
\* components else 0, as the fraction it is
avg_component_area(comps) ==
    IF Len(comps) > 0
    THEN [num |-> sum_area(comps), den |-> Len(comps)]
    ELSE [num |-> 0, den |-> 1]

\* lines 121-129
result_components(comps) ==
    [k \in 1..Len(comps) |->
        [id |-> comps[k].id, bbox |-> comps[k].bbox, area |-> comps[k].area,
         type |-> comps[k].type]]

\* ET.tostring(svg_root): the document that was parsed, with the children
\* it has after the labels were appended
annotated_svg(source, root) == [source |-> source, children |-> root]

PipeIdle ==
    /\ ppc = "idle"
    /\ entry = "none"
    /\ auto_annotate = TRUE
    /\ label_args = [start_number |-> 10, number_increment |-> 10,
                     add_leader_lines |-> TRUE]
    /\ vector_args = [threshold |-> 128, optimize |-> TRUE]
    /\ sketch_bytes = NoRaster
    /\ caller_svg = NotTraced
    /\ diagram_bytes = NoRaster
    /\ svg_traced = NotTraced
    /\ svg_optimized = NotTraced
    /\ stages = <<>>
    /\ result = NoResult
    /\ perror = "none"

\* the frame of the previous place_labels_on_svg call is gone
AnnotReset ==
    /\ pc' = "idle"
    /\ error' = "none"
    /\ svg_content' = [parsable |-> TRUE, width |-> AbsentAttr,
                       height |-> AbsentAttr, children |-> <<>>]
    /\ components' = <<>>
    /\ start_number' = 10
    /\ increment' = 10
    /\ add_leader_lines' = TRUE
    /\ svg_root' = <<>>
    /\ width' = 0
    /\ height' = 0
    /\ sorted_components' = <<>>
    /\ i' = 0
    /\ labels' = <<>>
    /\ placed_positions' = <<>>
    /\ distance' = Unbound
    /\ prev_labels' = NoPrevious

\* the frames of the previous call are gone
LocalsReset ==
    /\ AnnotReset
    /\ diagram_bytes' = NoRaster
    /\ svg_traced' = NotTraced
    /\ svg_optimized' = NotTraced
    /\ result' = NoResult
    /\ perror' = "none"

\* detect_components(image, min_a, max_c) is entered
detector_called(min_a, max_c) ==
    /\ min_area' = min_a
    /\ max_components' = max_c
    /\ masks' = <<>>
    /\ detected' = <<>>
    /\ components_sorted' = <<>>
    /\ strategy' = "none"
    /\ dpc' = "load"
    /\ UNCHANGED <<initialized, has_mask_generator, load_count, sam2_env,
                   cv2_available>>

\* Lines 39-68: a caller invokes process_sketch
ProcessSketch ==
    /\ ppc \in {"idle", "returned", "raised"}
    /\ initialized \/ load_count < MaxLoads
    /\ \E auto \in BOOLEAN, args \in LabelArgs :
        /\ auto_annotate' = auto
        /\ label_args' = args
    /\ vector_args' = [threshold |-> 128, optimize |-> TRUE]
    /\ entry' = "process_sketch"
    /\ sketch_bytes' = Raster("sketch", 640, 480, <<255, 60>>)
    /\ caller_svg' = NotTraced
    /\ stages' = <<>>
    /\ ppc' = "generate"
    /\ LocalsReset
    /\ dpc' = "idle"
    /\ masks' = <<>>
    /\ detected' = <<>>
    /\ components_sorted' = <<>>
    /\ strategy' = "none"
    /\ UNCHANGED <<initialized, has_mask_generator, load_count, sam2_env,
                   cv2_available, min_area, max_components>>
    /\ UNCHANGED <<shape_vars, request_vars, optimize_vars, run_vars>>

\* Lines 72-77: the awaited call of generate_technical_diagram returns a
\* raster or raises
Generate ==
    /\ ppc = "generate"
    /\ stages' = Append(stages, Stage("generate", sketch_bytes.id))
    /\ \/ \E raised \in GenerationFailures :
             /\ ppc' = on_generation_failure
             /\ perror' = raised
             /\ UNCHANGED diagram_bytes
       \/ \E returned \in GeneratedRasters :
             /\ ppc' = "vectorize"
             /\ diagram_bytes' = returned
             /\ UNCHANGED perror
    /\ UNCHANGED <<entry, auto_annotate, label_args, vector_args, sketch_bytes, caller_svg,
                   svg_traced, svg_optimized, result>>
    /\ UNCHANGED <<annot_vars, detect_vars, shape_vars, request_vars, optimize_vars, run_vars>>

\* Lines 81-95: trace, optimize, and the early return
Vectorize ==
    /\ ppc = "vectorize"
    /\ LET traced == bitmap_to_svg(diagram_bytes, default_threshold)
           optimized == optimize_svg(traced, scour_available)
       IN  /\ svg_traced' = traced
           /\ svg_optimized' = optimized
           /\ stages' = stages \o << Stage("trace", diagram_bytes.id),
                                     Stage("optimize", traced) >>
           /\ IF returns_early(auto_annotate)
              THEN /\ \E t \in ElapsedMs :
                        result' = [svg_content |-> optimized,
                                   diagram_image |-> diagram_bytes,
                                   components |-> <<>>,
                                   labels |-> <<>>,
                                   processing_time_ms |-> t,
                                   auto_annotated |-> FALSE]
                   /\ ppc' = "returned"
              ELSE /\ UNCHANGED result
                   /\ ppc' = "detect"
    /\ UNCHANGED <<entry, auto_annotate, label_args, vector_args, sketch_bytes, caller_svg,
                   diagram_bytes, perror>>
    /\ UNCHANGED <<annot_vars, detect_vars, shape_vars, request_vars, optimize_vars, run_vars>>

\* Lines 99-103: the awaited call of detect_components is made
PipeDetect ==
    /\ ppc = "detect"
    /\ entry = "process_sketch"
    /\ dpc = "idle"
    /\ stages' = Append(stages,
                        Stage("detect", detection_image(sketch_bytes, diagram_bytes).id))
    /\ detector_called(pipeline_min_area, pipeline_max_components)
    /\ UNCHANGED <<ppc, entry, auto_annotate, label_args, vector_args, sketch_bytes, caller_svg,
                   diagram_bytes, svg_traced, svg_optimized, result, perror>>
    /\ UNCHANGED <<annot_vars, shape_vars, request_vars, optimize_vars, run_vars>>

\* Lines 176-203: a caller invokes annotate_existing_svg, which calls
\* detect_components on the reference image first (max_components is left
\* to its default)
AnnotateExistingSvg ==
    /\ ppc \in {"idle", "returned", "raised"}
    /\ initialized \/ load_count < MaxLoads
    /\ \E svg \in SvgPool, image \in ReferenceImages, args \in LabelArgs :
        /\ caller_svg' = svg
        /\ sketch_bytes' = image
        /\ label_args' = args
        /\ stages' = << Stage("detect", image.id) >>
    /\ vector_args' = [threshold |-> 128, optimize |-> TRUE]
    /\ entry' = "annotate_existing_svg"
    /\ auto_annotate' = TRUE
    /\ ppc' = "detect"
    /\ LocalsReset
    /\ detector_called(pipeline_min_area, pipeline_max_components)
    /\ UNCHANGED <<shape_vars, request_vars, optimize_vars, run_vars>>

vectorize_only_stages_both(image, traced, optimize) ==
    << Stage("trace", image.id), Stage("optimize", traced) >>

\* Lines 164-170: bitmap_to_svg, and optimize_svg under `if optimize:`
vectorize_only_stages(image, traced, optimize) ==
    IF optimize THEN << Stage("trace", image.id), Stage("optimize", traced) >>
    ELSE << Stage("trace", image.id) >>

\* Lines 147-174: a caller invokes vectorize_only, which has no await and
\* runs to its return: trace the caller's raster, optimize when asked to
VectorizeOnly ==
    /\ ppc \in {"idle", "returned", "raised"}
    /\ \E image \in PreviewImages, threshold \in PreviewThresholds,
          optimize \in BOOLEAN :
        LET traced == bitmap_to_svg(image, threshold)
            optimized == optimize_svg(traced, scour_available)
        IN  /\ sketch_bytes' = image
            /\ vector_args' = [threshold |-> threshold, optimize |-> optimize]
            /\ svg_traced' = traced
            /\ svg_optimized' = IF optimize THEN optimized ELSE NotTraced
            /\ stages' = vectorize_only_stages(image, traced, optimize)
            /\ result' = [svg_content |-> IF optimize THEN optimized ELSE traced]
    /\ entry' = "vectorize_only"
    /\ ppc' = "returned"
    /\ perror' = "none"
    /\ diagram_bytes' = NoRaster
    /\ caller_svg' = NotTraced
    /\ AnnotReset
    /\ dpc' = "idle"
    /\ masks' = <<>>
    /\ detected' = <<>>
    /\ components_sorted' = <<>>
    /\ strategy' = "none"
    /\ UNCHANGED <<initialized, has_mask_generator, load_count, sam2_env,
                   cv2_available, min_area, max_components>>
    /\ UNCHANGED <<auto_annotate, label_args>>
    /\ UNCHANGED <<shape_vars, request_vars, optimize_vars, run_vars>>

\* what detect_components raised leaves the pipeline call
DetectRaised ==
    /\ ppc = "detect"
    /\ dpc = "raised"
    /\ ppc' = "raised"
    /\ perror' = "DetectionError"
    /\ UNCHANGED <<entry, auto_annotate, label_args, vector_args, sketch_bytes, caller_svg,
                   diagram_bytes, svg_traced, svg_optimized, stages, result>>
    /\ UNCHANGED <<annot_vars, detect_vars, shape_vars, request_vars, optimize_vars, run_vars>>

\* Lines 107-113 and 206-212: detect_components has returned, and
\* place_labels_on_svg is called with its list
PipeAnnotate ==
    /\ ppc = "detect"
    /\ dpc = "done"
    /\ LET svg == IF entry = "process_sketch" THEN svg_optimized ELSE caller_svg
       IN  /\ svg_content' = svg
           /\ stages' = Append(stages, Stage("annotate", svg))
    /\ components' = components_sorted
    /\ start_number' = label_args.start_number
    /\ increment' = label_args.number_increment
    /\ add_leader_lines' = label_args.add_leader_lines
    /\ pc' = "parse"
    /\ ppc' = "annotate"
    /\ UNCHANGED <<error, svg_root, width, height, sorted_components, i, labels,
                   placed_positions, distance, prev_labels>>
    /\ UNCHANGED <<entry, auto_annotate, label_args, vector_args, sketch_bytes, caller_svg,
                   diagram_bytes, svg_traced, svg_optimized, result, perror>>
    /\ UNCHANGED <<detect_vars, shape_vars, request_vars, optimize_vars, run_vars>>

\* what place_labels_on_svg raised leaves the pipeline call
AnnotateRaised ==
    /\ ppc = "annotate"
    /\ pc = "raised"
    /\ ppc' = "raised"
    /\ perror' = error
    /\ UNCHANGED <<entry, auto_annotate, label_args, vector_args, sketch_bytes, caller_svg,
                   diagram_bytes, svg_traced, svg_optimized, stages, result>>
    /\ UNCHANGED <<annot_vars, detect_vars, shape_vars, request_vars, optimize_vars, run_vars>>

\* Lines 115-145 and 214-218: place_labels_on_svg has returned, and the
\* result is put together
PipeReturn ==
    /\ ppc = "annotate"
    /\ pc = "done"
    /\ IF entry = "process_sketch"
       THEN \E t \in ElapsedMs :
               result' = [svg_content |-> annotated_svg(svg_content, svg_root),
                          diagram_image |-> diagram_bytes,
                          components |-> result_components(components_sorted),
                          labels |-> labels,
                          processing_time_ms |-> t,
                          auto_annotated |-> TRUE,
                          quality_metrics |->
                             [num_components_detected |-> Len(components_sorted),
                              num_labels_placed |-> Len(labels),
                              avg_component_area |->
                                  avg_component_area(components_sorted)]]
       ELSE result' = [svg_content |-> annotated_svg(svg_content, svg_root),
                       labels |-> labels,
                       num_components |-> Len(components_sorted)]
    /\ ppc' = "returned"
    /\ UNCHANGED <<entry, auto_annotate, label_args, vector_args, sketch_bytes, caller_svg,
                   diagram_bytes, svg_traced, svg_optimized, stages, perror>>
    /\ UNCHANGED <<annot_vars, detect_vars, shape_vars, request_vars, optimize_vars, run_vars>>

(***************************************************************************)
(* Two calls of process_sketch in one process                              *)
(*                                                                         *)
(* process_sketch is a coroutine.  The only awaits in it that suspend are  *)
(* those of the generator's HTTP client (image_generator_service.py, lines *)
(* 186 and 215); `await component_detector.detect_components(...)` runs    *)
(* the detector's coroutine inline, and bitmap_to_svg, optimize_svg and    *)
(* place_labels_on_svg are plain calls.  Nothing in src/ hands any of them *)
(* to an executor or a thread.  So a call that has been resumed after the  *)
(* generation keeps the thread of the event loop from line 76 until it     *)
(* returns or raises.  The calls share the module-level instances          *)
(* `vectorizer`, `component_detector` and `annotator`; of their fields     *)
(* only _initialized and mask_generator are ever assigned after            *)
(* construction.                                                           *)
(***************************************************************************)
Runs == {1, 2}

Scene(ms, cs) == [masks |-> ms, contours |-> cs]

\* what SAM2, and what cv2.findContours, find in a generated diagram
RunScenes ==
    { Scene(<< Mask(200, 50, 300, 50, 300), Mask(10, 10, 100, 100, 1000),
               Mask(5, 5, 30, 50, 99) >>,
            << Contour(10, 10, 100, 100, 2000), Contour(500, 10, 40, 20, 200) >>),
      Scene(<< Mask(50, 200, 20, 100, 300) >>, <<>>) }

NoScene == Scene(<<>>, <<>>)

RunDiagrams ==
    { Raster("diagram_a", 800, 600, <<255, 0, 140>>),
      Raster("diagram_b", 512, 512, <<100>>) }

NoArgs == [auto_annotate |-> FALSE, label_args |-> [start_number |-> 1,
           number_increment |-> 10, add_leader_lines |-> TRUE]]

NoLocal == [diagram |-> NoRaster, found |-> NoScene, failure |-> "none",
            svg |-> NotTraced, components |-> <<>>]

RunsIdle ==
    /\ running = 0
    /\ run_pc = [r \in Runs |-> "idle"]
    /\ run_args = [r \in Runs |-> NoArgs]
    /\ run_local = [r \in Runs |-> NoLocal]
    /\ run_result = [r \in Runs |-> NoResult]

\* the loop body of place_labels_on_svg (lines 68-107) from iteration st.i
\* to the end of sorted; `distance` is assigned in every iteration in which
\* add_leader_lines holds, so the label dict never reads it unbound
RECURSIVE label_loop(_, _, _, _, _)
label_loop(st, sorted, args, img_width, img_height) ==
    IF st.i = Len(sorted) THEN st
    ELSE LET component == sorted[st.i + 1]
             label_number == label_number_of(args.start_number, st.i,
                                             args.number_increment)
             bbox == component.bbox
             component_center == calculate_center(bbox)
             label_pos == calculate_label_position(bbox, st.placed_positions,
                                                   img_width, img_height)
             d2 == distance_sq(label_pos, component_center)
             with_label == add_label_to_svg(st.svg_root, label_number, label_pos)
             dist == [bound |-> TRUE, sq |-> d2]
         IN  label_loop(
                 [i |-> st.i + 1,
                  svg_root |-> IF leader_line_needed(args.add_leader_lines, d2)
                               THEN add_leader_line(with_label, component_center,
                                                    label_pos)
                               ELSE with_label,
                  labels |-> Append(st.labels,
                      [number |-> label_number,
                       position |-> label_pos,
                       component_id |-> component.id,
                       has_leader_line |->
                           has_leader_line(args.add_leader_lines, dist)]),
                  placed_positions |-> Append(st.placed_positions, label_pos)],
                 sorted, args, img_width, img_height)

\* place_labels_on_svg(svg_content, components, start_number, increment,
\* add_leader_lines), lines 27-113, as one call: what it raises, or the
\* pair (annotated_svg, labels).  `previous` is what earlier calls on the
\* instance returned.
place_labels_on_svg(svg, comps, args, previous) ==
    IF ~svg.parsable
    THEN [raised |-> "ParseError", svg_content |-> NotTraced, labels |-> <<>>]
    ELSE IF attr_raises(svg.width) \/ attr_raises(svg.height)
    THEN [raised |-> "ValueError", svg_content |-> NotTraced, labels |-> <<>>]
    ELSE LET done == label_loop([i |-> 0, svg_root |-> svg.children,
                                 labels |-> <<>>,
                                 placed_positions |-> initial_positions(previous)],
                                sort_components_by_importance(comps), args,
                                attr_int(svg.width, default_width),
                                attr_int(svg.height, default_height))
         IN  [raised |-> "none",
              svg_content |-> annotated_svg(svg, done.svg_root),
              labels |-> done.labels]

\* detect_components(image, min_area, max_components), lines 69-109, after
\* _lazy_load_model: the strategy the flags select, applied to what it
\* finds in the image, then the ranking
detect_components(found, ready, cv2, min_a, max_c) ==
    rank_components(IF ready THEN detect_with_sam2(found.masks, min_a)
                    ELSE IF cv2 THEN detect_with_fallback(found.contours, min_a)
                    ELSE <<>>,
                    max_c)

\* labels returned so far by the other calls in the process
labels_of_others(r) ==
    LET o == CHOOSE o \in Runs : o # r
    IN  [returned |-> run_result[o].returned,
         labels |-> IF run_result[o].returned THEN run_result[o].labels ELSE <<>>,
         other_args |-> FALSE]

locals_of_first(locals, r) == locals[1]

\* svg_content and components are local variables of process_sketch: each
\* call reads its own
locals_of(locals, r) == locals[r]

runs_frame ==
    /\ UNCHANGED <<annot_vars, shape_vars, request_vars, optimize_vars, pipe_vars>>
    /\ UNCHANGED <<dpc, sam2_env, cv2_available, masks, min_area, max_components,
                   strategy, detected, components_sorted>>

\* Lines 39-72 and the generator up to its `await client.get/post`: the
\* loop starts the call, which runs until it suspends on the HTTP request
RunCall(r) ==
    /\ run_pc[r] = "idle"
    /\ running = 0
    /\ \E auto \in BOOLEAN, args \in LabelArgs :
        run_args' = [run_args EXCEPT ![r] = [auto_annotate |-> auto,
                                             label_args |-> args]]
    /\ run_pc' = [run_pc EXCEPT ![r] = "generating"]
    /\ UNCHANGED <<running, run_local, run_result>>
    /\ UNCHANGED <<initialized, has_mask_generator, load_count>>
    /\ runs_frame

\* the HTTP response, or the failure of the request, arrives: the call can
\* be resumed
GenerationDone(r) ==
    /\ run_pc[r] = "generating"
    /\ \/ \E raised \in GenerationFailures :
            run_local' = [run_local EXCEPT ![r].failure = raised]
       \/ \E returned \in RunDiagrams, found \in RunScenes :
            run_local' = [run_local EXCEPT ![r].diagram = returned,
                                           ![r].found = found]
    /\ run_pc' = [run_pc EXCEPT ![r] = "resumable"]
    /\ UNCHANGED <<running, run_args, run_result>>
    /\ UNCHANGED <<initialized, has_mask_generator, load_count>>
    /\ runs_frame

\* the loop, when no call is executing, resumes the call: the generator
\* re-raises, which ends process_sketch, or returns the image (lines 72-77)
Resume(r) ==
    /\ run_pc[r] = "resumable"
    /\ running = 0
    /\ IF run_local[r].failure # "none"
       THEN /\ run_pc' = [run_pc EXCEPT ![r] = on_generation_failure]
            /\ UNCHANGED running
       ELSE /\ run_pc' = [run_pc EXCEPT ![r] = "vectorize"]
            /\ running' = r
    /\ UNCHANGED <<run_args, run_local, run_result>>
    /\ UNCHANGED <<initialized, has_mask_generator, load_count>>
    /\ runs_frame

\* Lines 79-95: bitmap_to_svg and optimize_svg, and the early return
RunVectorize(r) ==
    /\ run_pc[r] = "vectorize"
    /\ running = r
    /\ LET traced == bitmap_to_svg(run_local[r].diagram, default_threshold)
           optimized == optimize_svg(traced, scour_available)
       IN  /\ run_local' = [run_local EXCEPT ![r].svg = optimized]
           /\ IF returns_early(run_args[r].auto_annotate)
              THEN /\ \E t \in ElapsedMs :
                        run_result' = [run_result EXCEPT ![r] =
                            [returned |-> TRUE,
                             svg_content |-> optimized,
                             diagram_image |-> run_local[r].diagram,
                             components |-> <<>>,
                             labels |-> <<>>,
                             processing_time_ms |-> t,
                             auto_annotated |-> FALSE]]
                   /\ run_pc' = [run_pc EXCEPT ![r] = "returned"]
                   /\ running' = 0
              ELSE /\ run_pc' = [run_pc EXCEPT ![r] = "detect"]
                   /\ UNCHANGED <<running, run_result>>
    /\ UNCHANGED run_args
    /\ UNCHANGED <<initialized, has_mask_generator, load_count>>
    /\ runs_frame

\* Lines 97-103: `await component_detector.detect_components(...)`, which
\* loads SAM2 if the instance is not initialized and returns before the loop
\* can resume anything else
RunDetect(r) ==
    /\ run_pc[r] = "detect"
    /\ running = r
    /\ LET loads == needs_load(initialized)
           ready == IF loads THEN sam2_env = "ok"
                    ELSE initialized /\ has_mask_generator
       IN  /\ load_count' = IF loads THEN load_count + 1 ELSE load_count
           /\ initialized' = IF loads THEN sam2_env = "ok" ELSE initialized
           /\ has_mask_generator' = IF loads /\ sam2_env = "ok" THEN TRUE
                                    ELSE has_mask_generator
           /\ run_local' = [run_local EXCEPT ![r].components =
                  detect_components(run_local[r].found, ready, cv2_available,
                                    pipeline_min_area, pipeline_max_components)]
    /\ run_pc' = [run_pc EXCEPT ![r] = "annotate"]
    /\ UNCHANGED <<running, run_args, run_result>>
    /\ runs_frame

\* Lines 105-145: place_labels_on_svg, then the result
RunAnnotate(r) ==
    /\ run_pc[r] = "annotate"
    /\ running = r
    /\ LET placed == place_labels_on_svg(locals_of(run_local, r).svg,
                                         locals_of(run_local, r).components,
                                         run_args[r].label_args, labels_of_others(r))
       IN  IF placed.raised # "none"
           THEN /\ run_pc' = [run_pc EXCEPT ![r] = "raised"]
                /\ UNCHANGED run_result
           ELSE /\ \E t \in ElapsedMs :
                     run_result' = [run_result EXCEPT ![r] =
                         [returned |-> TRUE,
                          svg_content |-> placed.svg_content,
                          diagram_image |-> run_local[r].diagram,
                          components |-> result_components(run_local[r].components),
                          labels |-> placed.labels,
                          processing_time_ms |-> t,
                          auto_annotated |-> TRUE,
                          quality_metrics |->
                             [num_components_detected |->
                                  Len(run_local[r].components),
                              num_labels_placed |-> Len(placed.labels),
                              avg_component_area |->
                                  avg_component_area(run_local[r].components)]]]
                /\ run_pc' = [run_pc EXCEPT ![r] = "returned"]
    /\ running' = 0
    /\ UNCHANGED <<run_args, run_local>>
    /\ UNCHANGED <<initialized, has_mask_generator, load_count>>
    /\ runs_frame

ExtraIdle == ShapeIdle /\ RequestsIdle /\ OptimizeIdle /\ PipeIdle /\ RunsIdle

(***************************************************************************)
(* Specifications                                                          *)
(***************************************************************************)
Init == AnnotInit /\ DetectIdle /\ sam2_env = "ok" /\ cv2_available = TRUE /\ ExtraIdle

Next == Call \/ Parse \/ PlaceLabel \/ Return \/ CallAgain

Spec == Init /\ [][Next]_vars

InitDetect == AnnotInit /\ DetectInit /\ ExtraIdle

NextDetect == DetectCall \/ LazyLoad \/ DetectWithSam2 \/ DetectWithFallback \/ Rank

SpecDetect == InitDetect /\ [][NextDetect]_vars

InitClassify ==
    /\ AnnotInit /\ DetectIdle /\ sam2_env = "ok" /\ cv2_available = TRUE
    /\ ShapeInit /\ RequestsIdle /\ OptimizeIdle /\ PipeIdle /\ RunsIdle

NextClassify == Classify

SpecClassify == InitClassify /\ [][NextClassify]_vars

InitRequests ==
    /\ AnnotInit /\ DetectInit /\ ShapeIdle /\ RequestsInit /\ OptimizeIdle
    /\ PipeIdle /\ RunsIdle

NextRequests ==
    \E r \in Requests :
        RequestCall(r) \/ RequestCheck(r) \/ RequestLoad(r) \/ RequestDetect(r)

SpecRequests == InitRequests /\ [][NextRequests]_vars

InitOptimize ==
    /\ AnnotInit /\ DetectIdle /\ sam2_env = "ok" /\ cv2_available = TRUE
    /\ ShapeIdle /\ RequestsIdle /\ OptimizeInit /\ PipeIdle /\ RunsIdle

NextOptimize == BitmapToSvg \/ OptimizeSvg

SpecOptimize == InitOptimize /\ [][NextOptimize]_vars

\* the process has SAM2 or not, OpenCV or not, scour or not
InitPipeline ==
    /\ AnnotInit /\ DetectIdle /\ ShapeIdle /\ RequestsIdle /\ PipeIdle
    /\ RunsIdle
    /\ sam2_env \in {"ok", "not_installed"}
    /\ cv2_available \in BOOLEAN
    /\ scour_available \in BOOLEAN
    /\ opt_raster = Raster("diagram_c", 512, 512, <<255>>)
    /\ opt_threshold = 128
    /\ opt_traced = NotTraced
    /\ opt_results = <<>>

NextPipeline ==
    \/ ProcessSketch \/ Generate \/ Vectorize \/ PipeDetect
    \/ AnnotateExistingSvg \/ DetectRaised \/ PipeAnnotate \/ AnnotateRaised
    \/ PipeReturn \/ VectorizeOnly
    \/ LazyLoad \/ DetectWithSam2 \/ DetectWithFallback \/ Rank
    \/ Parse \/ PlaceLabel \/ Return

SpecPipeline == InitPipeline /\ [][NextPipeline]_vars

\* the process has SAM2 or not, OpenCV or not, scour or not; the detector
\* instance is cold
InitRuns ==
    /\ AnnotInit /\ DetectIdle /\ ShapeIdle /\ RequestsIdle /\ PipeIdle
    /\ RunsIdle
    /\ sam2_env \in Sam2Envs
    /\ cv2_available \in BOOLEAN
    /\ scour_available \in BOOLEAN
    /\ opt_raster = Raster("diagram_c", 512, 512, <<255>>)
    /\ opt_threshold = 128
    /\ opt_traced = NotTraced
    /\ opt_results = <<>>

NextRuns ==
    \E r \in Runs :
        \/ RunCall(r) \/ GenerationDone(r) \/ Resume(r)
        \/ RunVectorize(r) \/ RunDetect(r) \/ RunAnnotate(r)

SpecRuns == InitRuns /\ [][NextRuns]_vars

(***************************************************************************)
(* Properties of place_labels_on_svg                                       *)
(*                                                                         *)
(* The properties are written from the documented behaviour, with their    *)
(* own arithmetic, and not from the operators above.                       *)
(***************************************************************************)
InCall == pc \in {"loop", "done"}

\* the component the k-th label was made for
Ranked(k) == sorted_components[k]

PositionsBefore(k) == [j \in 1..(k - 1) |-> labels[j].position]

BoxCenter(bbox) == <<bbox[1] + (bbox[3] \div 2), bbox[2] + (bbox[4] \div 2)>>

SqDist(p, q) == (p[1] - q[1]) * (p[1] - q[1]) + (p[2] - q[2]) * (p[2] - q[2])

WithinCanvas(p) == 10 <= p[1] /\ p[1] <= width - 30 /\ 15 <= p[2] /\ p[2] <= height - 10

FarFromAll(p, positions) == \A j \in 1..Len(positions) : SqDist(p, positions[j]) >= 625

\* right-top, right-middle, left-top, top-center, bottom-center,
\* right-bottom, left-middle
SevenCandidates(bbox) ==
    LET x == bbox[1]  y == bbox[2]  w == bbox[3]  h == bbox[4]
    IN  << <<x + w + 15, y>>,
           <<x + w + 15, y + (h \div 2)>>,
           <<x - 45, y>>,
           <<x + (w \div 2) - 10, y - 30>>,
           <<x + (w \div 2) - 10, y + h + 15>>,
           <<x + w + 15, y + h>>,
           <<x - 45, y + (h \div 2)>> >>

\* candidate j of the k-th ranked component is legal: within the canvas and
\* at least 25px from every label placed before
Legal(k, j) ==
    LET c == SevenCandidates(Ranked(k).bbox)[j]
    IN  WithinCanvas(c) /\ FarFromAll(c, PositionsBefore(k))

HasCandidateWithinCanvas(k) ==
    \E j \in 1..7 : WithinCanvas(SevenCandidates(Ranked(k).bbox)[j])

\* C1: for every parsable SVG, a call of place_labels_on_svg returns, and
\* returns exactly one label per input component, each component id being
\* the component_id of exactly one label.
C1_OneLabelPerComponent ==
    /\ (pc = "raised" => ~svg_content.parsable)
    /\ (pc = "done" =>
            /\ Len(labels) = Len(components)
            /\ \A c \in 1..Len(components) :
                 Cardinality({ k \in 1..Len(labels) :
                                 labels[k].component_id = components[c].id }) = 1)

\* C2: the k-th returned label (k = 0, 1, ...) carries start_number +
\* k*increment and belongs to the k-th component in importance order; for
\* increment >= 1 the numbers strictly increase along the list.
C2_LabelNumbers ==
    InCall =>
        /\ \A k \in 1..Len(labels) :
              /\ labels[k].number = start_number + (k - 1) * increment
              /\ labels[k].component_id = Ranked(k).id
        /\ (increment >= 1 =>
              \A a, b \in 1..Len(labels) : a < b => labels[a].number < labels[b].number)

C2_Witness ==
    /\ pc = "done"
    /\ Len(labels) = 3
    /\ increment >= 1
    /\ sorted_components # components

\* score * 10000, for score = area - (0.3*y + 0.1*x)/1000
Score10000(c) == 10000 * c.area - (3 * c.bbox[2] + c.bbox[1])

\* 10 * (0.3*y + 0.1*x)
TopLeftness(c) == 3 * c.bbox[2] + c.bbox[1]

\* C3: of two labelled components the one with the strictly higher
\* importance score has the smaller label number, and of two with equal
\* area the one with the smaller 0.3*y + 0.1*x has the smaller label number
\* (numbers being distinct, i.e. increment >= 1).
C3_ImportanceOrder ==
    (InCall /\ increment >= 1) =>
        \A a, b \in 1..Len(labels) :
            /\ Score10000(Ranked(a)) > Score10000(Ranked(b))
                  => labels[a].number < labels[b].number
            /\ (Ranked(a).area = Ranked(b).area
                  /\ TopLeftness(Ranked(a)) < TopLeftness(Ranked(b)))
                  => labels[a].number < labels[b].number

\* a returned list for an input in which an equal-area pair and a
\* different-area pair both arrive in the opposite of their ranked order
C3_Witness ==
    /\ pc = "done"
    /\ increment >= 1
    /\ Len(labels) = Len(components)
    /\ \E a, b \in 1..Len(components) :
          /\ a < b
          /\ components[a].area = components[b].area
          /\ TopLeftness(components[a]) > TopLeftness(components[b])
    /\ \E a, b \in 1..Len(components) :
          /\ a < b
          /\ components[a].area < components[b].area

\* C4: when some candidate of a component is legal, the label is at the
\* first legal candidate in the order right-top, right-middle, left-top,
\* top-center, bottom-center, right-bottom, left-middle.
C4_FirstLegalCandidate ==
    InCall =>
        \A k \in 1..Len(labels) : \A j \in 1..7 :
            (Legal(k, j) /\ \A e \in 1..(j - 1) : ~Legal(k, e))
                => labels[k].position = SevenCandidates(Ranked(k).bbox)[j]

\* a label at its second or later candidate because an earlier label is too
\* near the right-top candidate, and another because right-top is off canvas
C4_Witness ==
    /\ pc = "done"
    /\ \E k \in 1..Len(labels) : \E j \in 2..7 :
          /\ Legal(k, j)
          /\ \A e \in 1..(j - 1) : ~Legal(k, e)
          /\ WithinCanvas(SevenCandidates(Ranked(k).bbox)[1])
    /\ \E k \in 1..Len(labels) : \E j \in 2..7 :
          /\ Legal(k, j)
          /\ \A e \in 1..(j - 1) : ~Legal(k, e)
          /\ ~WithinCanvas(SevenCandidates(Ranked(k).bbox)[1])

\* C5: a component none of whose candidates is legal is still labelled, at
\* its right-top candidate; the loop goes on, every component gets its label
\* and no error leaves the placement loop.
C5_PlacementNeverFails ==
    /\ InCall =>
          \A k \in 1..Len(labels) :
              (\A j \in 1..7 : ~Legal(k, j))
                  => labels[k].position =
                        <<Ranked(k).bbox[1] + Ranked(k).bbox[3] + 15, Ranked(k).bbox[2]>>
    /\ (pc = "done" => Len(labels) = Len(components))
    /\ (pc = "raised" => error \in {"ParseError", "ValueError"})

\* a component without legal candidate was labelled and another one after
\* it; one component had candidates within the canvas, all of them too near
\* to earlier labels
C5_Witness ==
    /\ pc = "done"
    /\ \E k \in 1..(Len(labels) - 1) : \A j \in 1..7 : ~Legal(k, j)
    /\ \E k \in 1..Len(labels) :
          /\ \A j \in 1..7 : ~Legal(k, j)
          /\ HasCandidateWithinCanvas(k)

FarApartCenters(a, b) ==
    SqDist(BoxCenter(Ranked(a).bbox), BoxCenter(Ranked(b).bbox)) > 110 * 110

\* C6 as stated: two components whose centers are more than 2*(25+30) =
\* 110px apart and which each have a candidate within the canvas get labels
\* at least 25px apart.
C6_NoOverlap ==
    InCall =>
        \A a, b \in 1..Len(labels) :
            (a < b /\ FarApartCenters(a, b)
                   /\ HasCandidateWithinCanvas(a) /\ HasCandidateWithinCanvas(b))
                => SqDist(labels[a].position, labels[b].position) >= 625

\* C6 as amended: ... and the one labelled later of the two has a candidate
\* within the canvas that is at least 25px from every label placed before
\* it; then the two labels are at least 25px apart.
C6_NoOverlapWhenLegal ==
    InCall =>
        \A a, b \in 1..Len(labels) :
            (a < b /\ FarApartCenters(a, b)
                   /\ HasCandidateWithinCanvas(a) /\ HasCandidateWithinCanvas(b)
                   /\ \E j \in 1..7 : Legal(b, j))
                => SqDist(labels[a].position, labels[b].position) >= 625

\* the later component's right-top candidate is within the canvas but nearer
\* than 25px to the label of a far-away earlier component that is not the
\* one labelled just before it
C6_Witness ==
    /\ pc = "done"
    /\ \E a, b \in 1..Len(labels) :
          /\ a + 1 < b
          /\ FarApartCenters(a, b)
          /\ HasCandidateWithinCanvas(a)
          /\ \E j \in 1..7 : Legal(b, j)
          /\ WithinCanvas(SevenCandidates(Ranked(b).bbox)[1])
          /\ SqDist(SevenCandidates(Ranked(b).bbox)[1], labels[a].position) < 625

LeaderDue(k) ==
    add_leader_lines /\ SqDist(labels[k].position, BoxCenter(Ranked(k).bbox)) > 900

\* C7: has_leader_line of a label is true exactly when add_leader_lines is
\* true and the label is more than 30px from the center (x + w//2, y + h//2)
\* of its component; with add_leader_lines false it is false for every label
\* and the call raises nothing.
C7_LeaderLineFlag ==
    /\ InCall => \A k \in 1..Len(labels) : labels[k].has_leader_line = LeaderDue(k)
    /\ (InCall /\ ~add_leader_lines) =>
          \A k \in 1..Len(labels) : ~labels[k].has_leader_line
    /\ (pc = "raised" /\ ~add_leader_lines) => error \in {"ParseError", "ValueError"}

\* labels farther than, exactly at, and nearer than 30px, leader lines on
C7_Witness ==
    /\ pc = "done"
    /\ add_leader_lines
    /\ \E k \in 1..Len(labels) : labels[k].has_leader_line
    /\ \E k \in 1..Len(labels) :
          SqDist(labels[k].position, BoxCenter(Ranked(k).bbox)) = 900
    /\ \E k \in 1..Len(labels) :
          SqDist(labels[k].position, BoxCenter(Ranked(k).bbox)) < 900

IsGroup(e) == e.tag = "g"
IsLine(e) == e.tag = "line"

\* C8: the root's children are the children it had before the call, in
\* their order, followed by the added elements: one label group per label,
\* in label order, with the label's number and position, one line per label
\* that has a leader line, and nothing else.
C8_SvgOnlyExtended ==
    InCall =>
        LET before == svg_content.children
            added == SubSeq(svg_root, Len(before) + 1, Len(svg_root))
            groups == SelectSeq(added, IsGroup)
            lines == SelectSeq(added, IsLine)
        IN  /\ Len(svg_root) >= Len(before)
            /\ SubSeq(svg_root, 1, Len(before)) = before
            /\ Len(groups) = Len(labels)
            /\ \A k \in 1..Len(groups) :
                  /\ groups[k].text = labels[k].number
                  /\ <<groups[k].cx, groups[k].cy>> = labels[k].position
            /\ Len(lines) = Cardinality({ k \in 1..Len(labels) : labels[k].has_leader_line })
            /\ Len(added) = Len(groups) + Len(lines)

C8_Witness ==
    /\ pc = "done"
    /\ Len(svg_content.children) = 2
    /\ Len(labels) = 3
    /\ \E k \in 1..Len(labels) : labels[k].has_leader_line
    /\ \E k \in 1..Len(labels) : ~labels[k].has_leader_line

\* C9: a call on the same component list and the same SVG as the call
\* before it, with any start_number, increment and add_leader_lines, returns
\* the same label positions for the same components.
C9_PlacementDeterministic ==
    (pc = "done" /\ prev_labels.returned) =>
        /\ Len(labels) = Len(prev_labels.labels)
        /\ \A k \in 1..Len(labels) :
              /\ labels[k].position = prev_labels.labels[k].position
              /\ labels[k].component_id = prev_labels.labels[k].component_id

\* the second call had another start_number, another increment and another
\* add_leader_lines than the first, and drew leader lines
C9_Witness ==
    /\ pc = "done"
    /\ prev_labels.returned
    /\ prev_labels.other_args
    /\ Len(labels) = 3
    /\ \E k \in 1..Len(labels) : labels[k].has_leader_line

(***************************************************************************)
(* Properties of detect_components                                         *)
(***************************************************************************)
\* C10: whichever strategy produced the candidates, the returned list is
\* the candidates in non-increasing order of area cut to max_components
\* entries: it is ordered, no longer than max_components, made of
\* candidates, short only by what the cut removes, and every candidate left
\* out has an area no larger than any returned one.
C10_RankedAndTruncated ==
    dpc = "done" =>
        /\ \A a, b \in 1..Len(components_sorted) :
              a < b => components_sorted[a].area >= components_sorted[b].area
        /\ Len(components_sorted) <= max_components
        /\ Range(components_sorted) \subseteq Range(detected)
        /\ Len(components_sorted) =
              (IF Len(detected) < max_components THEN Len(detected) ELSE max_components)
        /\ \A d \in Range(detected) \ Range(components_sorted) :
              \A r \in Range(components_sorted) : d.area <= r.area

\* more candidates than max_components, found in another order than by area
C10_Witness ==
    /\ dpc = "done"
    /\ max_components >= 1
    /\ Len(detected) > max_components
    /\ Len(components_sorted) = max_components
    /\ \E a, b \in 1..Len(detected) : a < b /\ detected[a].area < detected[b].area

(***************************************************************************)
(* Properties of the detector                                              *)
(***************************************************************************)
\* the class the documentation gives a box of width w and height h, from
\* the ratio r = w / h (r < p/q  iff  q*w < p*h, for h > 0)
RatioAbove(w, h, p, q) == q * w > p * h

RatioBelow(w, h, p, q) == q * w < p * h

RatioClass(w, h) ==
    CASE h = 0 -> "unknown"
      [] h # 0 /\ RatioAbove(w, h, 9, 10) /\ RatioBelow(w, h, 11, 10) -> "circular"
      [] h # 0 /\ RatioAbove(w, h, 5, 2) -> "horizontal"
      [] h # 0 /\ RatioBelow(w, h, 2, 5) -> "vertical"
      [] h # 0 /\ ~RatioAbove(w, h, 5, 2) /\ RatioAbove(w, h, 3, 2) -> "rectangular_h"
      [] h # 0 /\ ~RatioBelow(w, h, 2, 5) /\ RatioBelow(w, h, 67, 100) -> "rectangular_v"
      [] OTHER -> "square"

ShapeClasses == {"unknown", "circular", "horizontal", "vertical",
                 "rectangular_h", "rectangular_v", "square"}

\* C11: every bounding box is given exactly one class, the one its ratio
\* w/h selects (h = 0 unknown; 0.9 < r < 1.1 circular; r > 2.5 horizontal;
\* r < 0.4 vertical; r > 1.5 rectangular_h; r < 0.67 rectangular_v;
\* otherwise square), whatever x and y are; 100x100 is circular, 300x50
\* horizontal and 20x100 vertical.
C11_ShapeClassification ==
    shape_type # "none" =>
        LET w == shape_bbox[3]  h == shape_bbox[4]
        IN  /\ shape_type \in ShapeClasses
            /\ shape_type = RatioClass(w, h)
            /\ (w = 100 /\ h = 100 => shape_type = "circular")
            /\ (w = 300 /\ h = 50 => shape_type = "horizontal")
            /\ (w = 20 /\ h = 100 => shape_type = "vertical")

C11_Witness ==
    /\ shape_bbox = <<50, 0, 300, 50>>
    /\ shape_type = "horizontal"

\* the load of SAM2 was attempted and did not succeed
LoadFailed == load_count > 0 /\ ~initialized

\* C12: once the load of the primary model has failed, the instance stays
\* on the fallback strategy and no later detect call attempts the load
\* again: the attempts stop at the one that failed.
C12_FailedLoadNotRetried ==
    LoadFailed =>
        /\ load_count = 1
        /\ (dpc \in {"rank", "done"} => strategy = "fallback")

AllRequestsEnded == \A r \in Requests : rpc[r] \in {"done", "raised"}

\* C13: when two requests use the shared detector at the same time while
\* the model is not loaded, the load is performed exactly once across both
\* requests, however the two are interleaved, worker threads included.
C13_LoadedExactlyOnce ==
    /\ load_count <= 1
    /\ (AllRequestsEnded => load_count = 1)

PrimaryAvailable == initialized /\ has_mask_generator

\* C14: whenever the primary strategy is unavailable or fails, a runtime
\* error while it generates masks with a loaded model included, detection
\* uses the contour strategy, and no exception of the primary strategy
\* leaves detect_components.
C14_FallbackOnPrimaryFailure ==
    /\ dpc # "raised"
    /\ (dpc \in {"rank", "done"} /\ ~PrimaryAvailable => strategy = "fallback")

InProcessSketch == entry = "process_sketch"

ProcessStages == <<"generate", "trace", "optimize", "detect", "annotate">>

StageLogged(name) == \E k \in 1..Len(stages) : stages[k].stage = name

InputOf(name) == stages[CHOOSE k \in 1..Len(stages) : stages[k].stage = name].input

\* C15: in a run of process_sketch the stages come in the order generation,
\* trace, optimize, detection, annotation, each at most once and each only
\* after the one before it has returned; the trace and the detection read
\* the raster generation returned, and annotation is given the optimized
\* SVG.
C15_StageOrder ==
    InProcessSketch =>
        /\ Len(stages) <= Len(ProcessStages)
        /\ \A k \in 1..Len(stages) : stages[k].stage = ProcessStages[k]
        /\ (StageLogged("trace") =>
                /\ diagram_bytes \in GeneratedRasters
                /\ InputOf("trace") = diagram_bytes.id
                /\ svg_traced.width.val = diagram_bytes.size[1]
                /\ svg_traced.height.val = diagram_bytes.size[2])
        /\ (StageLogged("optimize") =>
                /\ svg_traced # NotTraced
                /\ InputOf("optimize") = svg_traced)
        /\ (StageLogged("detect") =>
                /\ svg_optimized # NotTraced
                /\ InputOf("detect") = diagram_bytes.id)
        /\ (StageLogged("annotate") =>
                /\ dpc = "done"
                /\ InputOf("annotate") = svg_optimized
                /\ svg_content = svg_optimized
                /\ components = components_sorted)
        /\ (dpc # "idle" => StageLogged("detect"))
        /\ (pc # "idle" => StageLogged("annotate"))

C15_Witness ==
    /\ InProcessSketch
    /\ ppc = "returned"
    /\ Len(stages) = 5
    /\ Len(labels) >= 2
    /\ svg_optimized # svg_traced

StageNames == [k \in 1..Len(stages) |-> stages[k].stage]

\* C16: with auto_annotate false, process_sketch returns right after the
\* vectorization, with no components, no labels, auto_annotated false and
\* the optimized SVG as it is; the detector, its model load included, and
\* the annotator are not invoked in that run.
C16_EarlyReturn ==
    InProcessSketch /\ ~auto_annotate =>
        /\ ~StageLogged("detect") /\ ~StageLogged("annotate")
        /\ dpc = "idle" /\ pc = "idle"
        /\ ppc \in {"generate", "vectorize", "returned", "raised"}
        /\ (StageLogged("optimize") => ppc = "returned")
        /\ (ppc = "returned" =>
                /\ StageNames = <<"generate", "trace", "optimize">>
                /\ result.components = <<>>
                /\ result.labels = <<>>
                /\ result.auto_annotated = FALSE
                /\ result.svg_content = svg_optimized
                /\ \A k \in 1..Len(result.svg_content.children) :
                        result.svg_content.children[k].tag = "path")

C16_Witness ==
    /\ InProcessSketch /\ ~auto_annotate
    /\ ppc = "returned"
    /\ Len(result.svg_content.children) >= 1
    /\ load_count = 0

\* C17: when the generation call raises or times out, the run of
\* process_sketch ends with that error: generation was called once, no
\* vectorization, detection or annotation was executed, and nothing is
\* returned.
C17_GenerationFailureEndsRun ==
    InProcessSketch /\ perror \in GenerationFailures =>
        /\ ppc = "raised"
        /\ StageNames = <<"generate">>
        /\ result = NoResult
        /\ svg_traced = NotTraced /\ svg_optimized = NotTraced
        /\ dpc = "idle" /\ pc = "idle"

C17_Witness ==
    /\ InProcessSketch
    /\ ppc = "raised"
    /\ perror = "TimeoutError"
    /\ auto_annotate

RECURSIVE AreaTotal(_)
AreaTotal(comps) ==
    IF comps = <<>> THEN 0 ELSE Head(comps).area + AreaTotal(Tail(comps))

\* C18: with auto_annotate true, process_sketch detects with min_area 100
\* and max_components 50 and returns auto_annotated true with metrics in
\* which the component count is the length of the returned components, the
\* label count is the length of the returned labels and equals the
\* component count, and the mean area is sum(area)/count, or 0 when
\* nothing was detected.
C18_AutoAnnotateMetrics ==
    InProcessSketch /\ auto_annotate =>
        /\ (StageLogged("detect") => min_area = 100 /\ max_components = 50)
        /\ (ppc = "returned" =>
                LET n == Len(result.components)
                    qm == result.quality_metrics
                    mean == qm.avg_component_area
                IN  /\ result.auto_annotated = TRUE
                    /\ result.components = components_sorted
                    /\ qm.num_components_detected = n
                    /\ qm.num_labels_placed = Len(result.labels)
                    /\ Len(result.labels) = n
                    /\ mean.den > 0
                    /\ IF n = 0
                       THEN mean.num = 0
                       ELSE mean.num * n = AreaTotal(result.components) * mean.den)

C18_Witness ==
    /\ InProcessSketch /\ auto_annotate
    /\ ppc = "returned"
    /\ Len(result.components) >= 2
    /\ result.components[1].area # result.components[2].area

\* C19: a malformed SVG given to annotate_existing_svg is rejected at once:
\* the error is raised before the detection, and before any model load, is
\* started on the reference image.
C19_MalformedSvgRejectedFirst ==
    entry = "annotate_existing_svg" /\ ~caller_svg.parsable =>
        /\ ~StageLogged("detect")
        /\ dpc = "idle"

SolidWhite(raster) ==
    /\ raster.levels # <<>>
    /\ \A k \in 1..Len(raster.levels) : raster.levels[k] = 255

\* C21: vectorize_only on a solid white image returns, without error, an
\* SVG document with no path element whose declared width and height are
\* the image's.
C21_WhiteImageNoPaths ==
    entry = "vectorize_only" /\ ppc = "returned" /\ SolidWhite(sketch_bytes) =>
        /\ perror = "none"
        /\ result.svg_content.parsable
        /\ result.svg_content.width = IntAttr(sketch_bytes.size[1])
        /\ result.svg_content.height = IntAttr(sketch_bytes.size[2])
        /\ result.svg_content.children = <<>>

(***************************************************************************)
(* Properties of concurrent calls of process_sketch                        *)
(***************************************************************************)
InSlowStep(r) == run_pc[r] \in {"vectorize", "detect", "annotate"}

\* the call has work the loop could give the thread to: it has not been
\* started, or its generation has ended
CanStep(r) == run_pc[r] \in {"idle", "resumable"}

\* C22: tracing, detection and label placement run off the thread that
\* handles requests, so while one run is in its trace, detect or annotate
\* step, another run that is ready to be started or resumed can take its
\* step.
C22_SlowStepNeverBlocksOthers ==
    \A r \in Runs, o \in Runs :
        (r # o /\ InSlowStep(r) /\ CanStep(o)) =>
            ENABLED (RunCall(o) \/ Resume(o))

\* what call r returns when it is the only call the process ever executes:
\* its own diagram traced and optimized, the components a cold detector
\* finds in that diagram, and the labels placed for them on an annotator
\* that has placed nothing before
AloneSvg(r) ==
    optimize_svg(bitmap_to_svg(run_local[r].diagram, 128), scour_available)

AloneComponents(r) ==
    detect_components(run_local[r].found, sam2_env = "ok", cv2_available, 100, 50)

AlonePlaced(r) ==
    place_labels_on_svg(AloneSvg(r), AloneComponents(r), run_args[r].label_args,
                        NoPrevious)

\* C23: concurrent runs of process_sketch are independent: whatever the
\* interleaving, a run that returns gives the components, the labels and
\* the SVG it would give when executed alone on its own inputs.
C23_RunsIndependent ==
    \A r \in Runs :
        run_result[r].returned =>
            IF run_args[r].auto_annotate
            THEN /\ run_result[r].components = result_components(AloneComponents(r))
                 /\ run_result[r].labels = AlonePlaced(r).labels
                 /\ run_result[r].svg_content = AlonePlaced(r).svg_content
            ELSE /\ run_result[r].components = <<>>
                 /\ run_result[r].labels = <<>>
                 /\ run_result[r].svg_content = AloneSvg(r)

\* both runs have returned labels for the same findings in diagrams of the
\* same size, so that a position kept from one run would have displaced a
\* label of the other; the model was loaded by one of them only
C23_Witness ==
    /\ \A r \in Runs : run_result[r].returned /\ run_args[r].auto_annotate
    /\ run_result[1].labels # <<>>
    /\ run_local[1].found = run_local[2].found
    /\ run_local[1].diagram = run_local[2].diagram
    /\ run_result[1].labels[1].position = run_result[2].labels[1].position
    /\ initialized /\ load_count = 1

(***************************************************************************)
(* Properties of the secondary entry points and of the result              *)
(***************************************************************************)
OnlyStages(names) == \A k \in 1..Len(stages) : stages[k].stage \in names

\* C24: vectorize_only calls neither the generator, nor the detector, nor
\* the annotator: it traces the caller's raster and optimizes exactly when
\* optimize is true.  annotate_existing_svg calls neither the generator
\* nor the vectorizer: it detects on the reference raster and annotates
\* the caller's SVG.
C24_SecondaryEntriesSkipStages ==
    /\ entry = "vectorize_only" =>
          /\ OnlyStages({"trace", "optimize"})
          /\ StageLogged("trace") /\ InputOf("trace") = sketch_bytes.id
          /\ StageLogged("optimize") <=> vector_args.optimize
          /\ diagram_bytes = NoRaster
          /\ dpc = "idle" /\ pc = "idle"
    /\ entry = "annotate_existing_svg" =>
          /\ OnlyStages({"detect", "annotate"})
          /\ StageLogged("detect") /\ InputOf("detect") = sketch_bytes.id
          /\ StageLogged("annotate") => InputOf("annotate") = caller_svg
          /\ diagram_bytes = NoRaster
          /\ svg_traced = NotTraced /\ svg_optimized = NotTraced

\* vectorize_only has returned the traced document without optimizing it,
\* in a process whose detector an earlier call had loaded
C24_Witness ==
    /\ entry = "vectorize_only" /\ ppc = "returned"
    /\ ~vector_args.optimize
    /\ result.svg_content = svg_traced
    /\ initialized /\ load_count = 1

ResultKeys ==
    {"svg_content", "diagram_image", "components", "labels",
     "processing_time_ms", "quality_metrics"}

\* C25: every result process_sketch returns, with auto_annotate true or
\* false, carries the final SVG, the diagram raster, the components, the
\* labels, processing_time_ms and quality_metrics.
C25_ResultIsComplete ==
    (InProcessSketch /\ ppc = "returned") => ResultKeys \subseteq DOMAIN result

(***************************************************************************)
(* Properties of the leader lines, the area filter and the lazy load       *)
(***************************************************************************)
LinesDrawn == SelectSeq(svg_root, IsLine)

\* the label the j-th leader line was drawn for
LineLabel(j) ==
    CHOOSE k \in 1..Len(labels) :
        /\ labels[k].has_leader_line
        /\ Cardinality({ m \in 1..k : labels[m].has_leader_line }) = j

Between(a, b, c) == (a <= b /\ b <= c) \/ (c <= b /\ b <= a)

\* C26: every leader line starts at the center of the component's bounding
\* box and ends, on the segment towards the label position, 12px (the
\* circle radius) before it.  The end is written in whole pixels, each
\* coordinate less than 1 away from the exact point, so the squared
\* distance of the end from the label position lies between 113 and 179.
C26_LeaderLineEndsAtCircle ==
    InCall =>
        \A j \in 1..Len(LinesDrawn) :
            LET line == LinesDrawn[j]
                k == LineLabel(j)
                center == BoxCenter(Ranked(k).bbox)
                end == <<line.x2, line.y2>>
                d2 == SqDist(end, labels[k].position)
            IN  /\ <<line.x1, line.y1>> = center
                /\ Between(center[1], end[1], labels[k].position[1])
                /\ Between(center[2], end[2], labels[k].position[2])
                /\ 113 <= d2 /\ d2 <= 179

\* the k-th candidate, a mask with its pixel count or a contour with twice
\* its area, is at least min_area large
LargeEnough(k) ==
    IF strategy = "sam2" THEN masks[k].area >= min_area
    ELSE masks[k].area2 >= 2 * min_area

\* C27: under either strategy the candidates smaller than min_area are
\* dropped before the ranking and the others, one of area exactly min_area
\* included, are kept; every returned component has area >= min_area.
C27_MinAreaFilter ==
    /\ dpc \in {"rank", "done"} =>
          /\ \A k \in 1..Len(detected) : detected[k].area >= min_area
          /\ { detected[k].id : k \in 1..Len(detected) } =
                { k - 1 : k \in { m \in 1..Len(masks) : LargeEnough(m) } }
    /\ dpc = "done" =>
          \A k \in 1..Len(components_sorted) : components_sorted[k].area >= min_area

\* SAM2 found a mask of exactly min_area pixels, which is returned, and a
\* smaller one, which is not
C27_Witness ==
    /\ dpc = "done" /\ strategy = "sam2" /\ min_area = 100
    /\ \E k \in 1..Len(masks) : masks[k].area = 99
    /\ \E k \in 1..Len(components_sorted) : components_sorted[k].area = 100
    /\ Len(components_sorted) < Len(masks)

\* C28: the model is loaded lazily and memoized: constructing the detector
\* loads nothing, the first detect_components call attempts the load, and
\* once a load has succeeded no later call loads again (the successful
\* load stays the only one) and every later call uses the primary strategy.
C28_LazyLoadMemoized ==
    /\ dpc = "idle" => (load_count = 0 /\ ~initialized /\ ~has_mask_generator)
    /\ dpc \in {"detect", "rank", "done", "raised"} => load_count >= 1
    /\ initialized => (load_count = 1 /\ has_mask_generator)
    /\ (initialized /\ dpc \in {"rank", "done", "raised"}) => strategy = "sam2"

\* an earlier call has loaded the model, and a later call on the instance
\* is at its test of _initialized
C28_Witness ==
    /\ dpc = "load"
    /\ initialized /\ has_mask_generator
    /\ load_count = 1

(***************************************************************************)
(* Implicit properties of place_labels_on_svg                              *)
(***************************************************************************)
\* the k-th label is within the canvas and 25px or more from every label
\* placed before it
PlacedLegally(k) ==
    /\ WithinCanvas(labels[k].position)
    /\ FarFromAll(labels[k].position, PositionsBefore(k))

\* the k-th label is at (x + w + 15, y) of its component
AtRightTop(k) ==
    labels[k].position =
        <<Ranked(k).bbox[1] + Ranked(k).bbox[3] + 15, Ranked(k).bbox[2]>>

\* C29: every label is either within the canvas and at least 25px from
\* every label placed before it in the run, or exactly at its component's
\* right-top candidate, taken unchecked; so any two labels of the first
\* kind are at least 25px apart.
C29_LegalOrRightTop ==
    InCall =>
        /\ \A k \in 1..Len(labels) : PlacedLegally(k) \/ AtRightTop(k)
        /\ \A a, b \in 1..Len(labels) :
              (a # b /\ PlacedLegally(a) /\ PlacedLegally(b))
                  => SqDist(labels[a].position, labels[b].position) >= 625

\* one label is at a right-top candidate that is off the canvas, a second
\* at a right-top candidate too near to an earlier label, and a third at a
\* later candidate, legally
C29_Witness ==
    /\ pc = "done"
    /\ \E k \in 1..Len(labels) :
          AtRightTop(k) /\ ~WithinCanvas(labels[k].position)
    /\ \E k \in 1..Len(labels) :
          /\ AtRightTop(k) /\ WithinCanvas(labels[k].position)
          /\ ~FarFromAll(labels[k].position, PositionsBefore(k))
    /\ \E k \in 1..Len(labels) : PlacedLegally(k) /\ ~AtRightTop(k)

\* 0 <= 0.3*y + 0.1*x < 1000 for the origin of the component's box
OriginInRange(c) == 0 <= 3 * c.bbox[2] + c.bbox[1] /\ 3 * c.bbox[2] + c.bbox[1] < 10000

\* where the a-th ranked component stood in the list given to the call
InputIndex(a) == CHOOSE k \in 1..Len(components) : components[k] = Ranked(a)

\* C30: for boxes whose origin satisfies 0 <= 0.3*y + 0.1*x < 1000 the
\* position never outweighs the area: the component of strictly larger
\* area gets the strictly smaller label number, the position orders
\* components of equal area only, and components equal in area and origin
\* keep the order they were given in.
C30_AreaDominates ==
    (InCall /\ increment >= 1) =>
        \A a, b \in 1..Len(labels) :
            (OriginInRange(Ranked(a)) /\ OriginInRange(Ranked(b))) =>
                /\ Ranked(a).area > Ranked(b).area
                      => labels[a].number < labels[b].number
                /\ labels[a].number < labels[b].number
                      => Ranked(a).area >= Ranked(b).area
                /\ (Ranked(a).area = Ranked(b).area
                      /\ Ranked(a).bbox[1] = Ranked(b).bbox[1]
                      /\ Ranked(a).bbox[2] = Ranked(b).bbox[2]
                      /\ InputIndex(a) < InputIndex(b))
                      => labels[a].number < labels[b].number

\* the call was given a smaller component lying more to the top left
\* before a larger one, and two components of equal area and origin
C30_Witness ==
    /\ pc = "done"
    /\ increment >= 1
    /\ Len(labels) = 3
    /\ \E a, b \in 1..Len(components) :
          /\ a < b
          /\ components[a].area < components[b].area
          /\ TopLeftness(components[a]) < TopLeftness(components[b])
    /\ \E a, b \in 1..Len(components) :
          /\ a # b
          /\ components[a].area = components[b].area
          /\ components[a].bbox[1] = components[b].bbox[1]
          /\ components[a].bbox[2] = components[b].bbox[2]

====
